---------------------------- MODULE Spec2Model ----------------------------
(***************************************************************************)
(* Model of the BPER bank-statement parser                                 *)
(* (src/src/ingestion/bper_parser_improved.py, class BPERParser).          *)
(*                                                                         *)
(* Text is modelled at two levels.  A line is a sequence of atoms          *)
(* [k |-> kind, v |-> value]; an atom stands for a maximal piece of text   *)
(* that the regular expressions of the parser treat as a unit (a run of    *)
(* blanks, a DD/MM/YY token, a money token, a word, a fixed marker).       *)
(* Text(atom) is the character sequence of the atom, used wherever the     *)
(* code works on characters (offsets, float(), substring tests).           *)
(* Money is counted in cents; Python's None is the value None below.       *)
(* Python indices are 0-based, the indices here are 1-based.               *)
(*                                                                         *)
(* compensated_sum is the interpreter the program runs on: the built-in    *)
(* sum() of floats adds from left to right up to CPython 3.11 and is a     *)
(* compensated summation from CPython 3.12 on (setup.py asks for 3.8 or    *)
(* later).  arg and ret are the argument and the return value of a         *)
(* direct call of one of the field extractors.                             *)
(***************************************************************************)
EXTENDS Integers, Sequences, FiniteSets, TLC

VARIABLES pdf, pc, page_texts, page_num, i, current_transaction,
          transactions, all_transactions, result,
          compensated_sum, arg, ret,
          conto_finanziario, transazione

vars == <<pdf, pc, page_texts, page_num, i, current_transaction,
          transactions, all_transactions, result,
          compensated_sum, arg, ret,
          conto_finanziario, transazione>>

None == 0 - 1

(***************************************************************************)
(* Characters and atoms                                                    *)
(***************************************************************************)
Digits == <<"0", "1", "2", "3", "4", "5", "6", "7", "8", "9">>

IsDigit(c) == \E n \in 1..10 : Digits[n] = c

DigitVal(c) == (CHOOSE n \in 1..10 : Digits[n] = c) - 1

TwoDigits(n) == <<Digits[(n \div 10) + 1], Digits[(n % 10) + 1]>>

\* The money tokens that occur in the modelled statements.
AmountTokens ==
    << <<"1", "2", ",", "5", "0">>,
       <<"7", ",", "0", "0">>,
       <<"0", ",", "0", "0">>,
       <<"1", ".", "2", "3", "4", ",", "5", "6">>,
       <<"0", ",", "1", "0">>,
       <<"0", ",", "3", "0">> >>

\* The words that occur in the modelled statements.
Words ==
    << <<"B", "o", "n", "i", "f", "i", "c", "o">>,
       <<"P", "a", "y", "P", "a", "l">>,
       <<"f", "a", "r", "m", "a", "c", "i", "a">>,
       <<"x">>,
       <<"P", "a", "g", "a", "m", "e", "n", "t", "o">>,
       <<"S", "T", "A", "Z", "I", "O", "N", "E">>,
       <<"E", "N", "E", "R", "G", "A", "S">> >>

HeaderText == <<"D", "A", "T", "A", " ", "V", "A", "L", "U", "T", "A", " ",
                "U", "S", "C", "I", "T", "E", " ",
                "E", "N", "T", "R", "A", "T", "E", " ",
                "D", "E", "S", "C", "R", "I", "Z", "I", "O", "N", "E">>

FooterText == <<"D", "a", "t", "i", " ", "d", "a", " ",
                "u", "t", "i", "l", "i", "z", "z", "a", "r", "e">>

SaldoText == <<"S", "A", "L", "D", "O">>

RifText == <<"-", "R", "I", "F", ".", " ", "1", "2", "/", "3", "4">>

SaldoInizialeText == <<"S", "a", "l", "d", "o", " ", "i", "n", "i", "z", "i",
                       "a", "l", "e", " ", "a", "l">>

SaldoFinaleText == <<"S", "a", "l", "d", "o", " ", "f", "i", "n", "a", "l",
                     "e", " ", "a", "l">>

TotaleEntrateText == <<"T", "o", "t", "a", "l", "e", " ", "E", "n", "t", "r",
                       "a", "t", "e">>

TotaleUsciteText == <<"T", "o", "t", "a", "l", "e", " ", "U", "s", "c", "i",
                      "t", "e">>

InteressiText == <<"I", "N", "T", "E", "R", "E", "S", "S", "I", " ",
                   "C", "R", "E", "D", "I", "T", "O", "R", "I", " ",
                   "M", "A", "T", "U", "R", "A", "T", "I">>

TotaleNettoText == <<"T", "O", "T", "A", "L", "E", " ", "N", "E", "T", "T", "O">>

Sp(n) == [k |-> "sp", v |-> n]
W(n) == [k |-> "word", v |-> n]
D(ddmmyy) == [k |-> "date", v |-> ddmmyy]
A(n) == [k |-> "amt", v |-> n]
Hdr == [k |-> "hdr", v |-> 0]
Ftr == [k |-> "ftr", v |-> 0]
Saldo == [k |-> "saldo", v |-> 0]
Rif == [k |-> "rif", v |-> 0]
SIni == [k |-> "saldo_iniziale", v |-> 0]
SFin == [k |-> "saldo_finale", v |-> 0]
TEnt == [k |-> "totale_entrate", v |-> 0]
TUsc == [k |-> "totale_uscite", v |-> 0]
D4(ddmmyyyy) == [k |-> "date4", v |-> ddmmyyyy]
Eur == [k |-> "eur", v |-> 0]
Nl == [k |-> "nl", v |-> 0]
IntM == [k |-> "interessi", v |-> 0]
TotN == [k |-> "totale_netto", v |-> 0]

Text(a) ==
    CASE a.k = "sp" -> [n \in 1..a.v |-> " "]
      [] a.k = "word" -> Words[a.v]
      [] a.k = "date" -> TwoDigits(a.v \div 10000) \o <<"/">>
                         \o TwoDigits((a.v \div 100) % 100) \o <<"/">>
                         \o TwoDigits(a.v % 100)
      [] a.k = "amt" -> AmountTokens[a.v]
      [] a.k = "hdr" -> HeaderText
      [] a.k = "ftr" -> FooterText
      [] a.k = "saldo" -> SaldoText
      [] a.k = "rif" -> RifText
      [] a.k = "saldo_iniziale" -> SaldoInizialeText
      [] a.k = "saldo_finale" -> SaldoFinaleText
      [] a.k = "totale_entrate" -> TotaleEntrateText
      [] a.k = "totale_uscite" -> TotaleUsciteText
      [] a.k = "date4" -> TwoDigits(a.v \div 1000000) \o <<"/">>
                          \o TwoDigits((a.v \div 10000) % 100) \o <<"/">>
                          \o TwoDigits((a.v \div 100) % 100)
                          \o TwoDigits(a.v % 100)
      [] a.k = "eur" -> <<"EUR">>
      [] a.k = "nl" -> <<"NL">>
      [] a.k = "interessi" -> InteressiText
      [] a.k = "totale_netto" -> TotaleNettoText

Width(a) == IF a.k = "sp" THEN a.v ELSE Len(Text(a))

RECURSIVE Offset(_, _)
\* Number of characters before atom number n of the atom sequence s.
Offset(s, n) == IF n <= 1 THEN 0 ELSE Offset(s, n - 1) + Width(s[n - 1])

RECURSIVE Flatten(_)
Flatten(s) == IF s = <<>> THEN <<>> ELSE Text(Head(s)) \o Flatten(Tail(s))

RECURSIVE Strip(_)
\* str.strip() on an atom sequence: leading and trailing blanks removed.
Strip(s) ==
    IF s = <<>> THEN <<>>
    ELSE IF Head(s).k = "sp" THEN Strip(Tail(s))
    ELSE IF s[Len(s)].k = "sp" THEN Strip(SubSeq(s, 1, Len(s) - 1))
    ELSE s

(***************************************************************************)
(* Field extractors                                                        *)
(***************************************************************************)
IsLeap(y) == (y % 4 = 0 /\ y % 100 # 0) \/ y % 400 = 0

DaysInMonth(m, y) ==
    IF m = 2 THEN (IF IsLeap(y) THEN 29 ELSE 28)
    ELSE IF m \in {4, 6, 9, 11} THEN 30 ELSE 31

\* The year datetime.strptime gives to the two-digit year of %y.
StrptimeYear(yy) == IF yy <= 68 THEN 2000 + yy ELSE 1900 + yy

FutureCutoff == 2030

\* _parse_date_short without the cutoff of line 420: the year strptime gives.
parse_date_short_mut(tok) ==
    LET dd == tok \div 10000
        mm == (tok \div 100) % 100
        y0 == StrptimeYear(tok % 100)
    IN IF mm \in 1..12 /\ dd >= 1 /\ dd <= DaysInMonth(mm, y0)
       THEN y0 * 10000 + mm * 100 + dd
       ELSE None

\* _parse_date_short on the token DD/MM/YY given as the number DDMMYY.
\* A date is the number YYYYMMDD, so that dates compare as numbers.
parse_date_short(tok) ==
    LET dd == tok \div 10000
        mm == (tok \div 100) % 100
        y0 == StrptimeYear(tok % 100)
        yr == IF y0 > FutureCutoff THEN y0 - 100 ELSE y0
    IN IF mm \in 1..12 /\ dd >= 1 /\ dd <= DaysInMonth(mm, y0)
          /\ dd <= DaysInMonth(mm, yr)
       THEN yr * 10000 + mm * 100 + dd
       ELSE None

RECURSIVE Num(_)
\* The number written by a sequence of digits (0 for the empty sequence).
Num(s) == IF s = <<>> THEN 0
          ELSE Num(SubSeq(s, 1, Len(s) - 1)) * 10 + DigitVal(s[Len(s)])

RECURSIVE StripChars(_)
StripChars(s) ==
    IF s = <<>> THEN <<>>
    ELSE IF Head(s) = " " THEN StripChars(Tail(s))
    ELSE IF s[Len(s)] = " " THEN StripChars(SubSeq(s, 1, Len(s) - 1))
    ELSE s

\* float(s) in cents for a text of digits and '.', None when float() raises.
\* Fractions are read to two digits (the money tokens have exactly two).
FloatCents(s) ==
    LET dots == {n \in 1..Len(s) : s[n] = "."}
        p == IF dots = {} THEN Len(s) + 1 ELSE CHOOSE n \in dots : TRUE
        ip == SubSeq(s, 1, p - 1)
        fp == SubSeq(s, p + 1, Len(s))
    IN IF (\E n \in 1..Len(s) : ~IsDigit(s[n]) /\ s[n] # ".")
          \/ Cardinality(dots) > 1 \/ Len(ip) + Len(fp) = 0
       THEN None
       ELSE Num(ip) * 100
            + (IF Len(fp) = 0 THEN 0
               ELSE IF Len(fp) = 1 THEN Num(fp) * 10
               ELSE Num(SubSeq(fp, 1, 2)))

\* _parse_amount that keeps the '.' of the thousands (line 435 without
\* its first replace).
parse_amount_mut(amount_str) ==
    LET s1 == StripChars(SelectSeq(StripChars(amount_str),
                                   LAMBDA c : c # "EUR"))
        s3 == [n \in 1..Len(s1) |-> IF s1[n] = "," THEN "." ELSE s1[n]]
        f == FloatCents(StripChars(s3))
    IN IF StripChars(amount_str) = <<>> THEN 0
       ELSE IF f = None THEN 0 ELSE f

\* _parse_amount on a character sequence ("EUR" is the euro sign).  float()
\* ignores the white space around its argument.
parse_amount(amount_str) ==
    LET s1 == StripChars(SelectSeq(StripChars(amount_str),
                                   LAMBDA c : c # "EUR"))
        s2 == SelectSeq(s1, LAMBDA c : c # ".")
        s3 == [n \in 1..Len(s2) |-> IF s2[n] = "," THEN "." ELSE s2[n]]
        f == FloatCents(StripChars(s3))
    IN IF StripChars(amount_str) = <<>> THEN 0
       ELSE IF f = None THEN 0 ELSE f

(***************************************************************************)
(* The line patterns of _extract_transactions_from_page                    *)
(***************************************************************************)
HasAtom(line, kind) == \E n \in 1..Len(line) : line[n].k = kind

\* re.search(r'DATA\s+VALUTA\s+USCITE\s+ENTRATE\s+DESCRIZIONE', line)
header_match(line) == HasAtom(line, "hdr")

\* 'Dati da utilizzare' in line or 'Mod. 05.13.0011' in line
footer_match(line) == HasAtom(line, "ftr")

\* A loop without the test of line 184: no line is a balance row.
saldo_match_mut(line) == FALSE

\* re.match(r'\d{2}/\d{2}/\d{2}\s+[\d.,]+\s+SALDO', line), line stripped
saldo_match(line) ==
    /\ Len(line) >= 5
    /\ line[1].k = "date" /\ line[2].k = "sp" /\ line[3].k = "amt"
    /\ line[4].k = "sp" /\ line[5].k = "saldo"

\* The pattern 'data_transazione': ^(\d{2}/\d{2}/\d{2})\s+(\d{2}/\d{2}/\d{2})
data_transazione(line) ==
    /\ Len(line) >= 3
    /\ line[1].k = "date" /\ line[2].k = "sp" /\ line[3].k = "date"

\* re.match(r'^(\d{2}/\d{2}/\d{2})\s+(\d{2}/\d{2}/\d{2})\s+(.+)', line),
\* line stripped: the two dates, blanks, and at least one more character.
date_match(line) ==
    /\ Len(line) >= 5
    /\ line[1].k = "date" /\ line[2].k = "sp" /\ line[3].k = "date"
    /\ line[4].k = "sp"

\* group(3) of date_match: \s+ is greedy, so the group starts at the first
\* character after the second date that is not a blank.
resto_riga(line) == Strip(SubSeq(line, 5, Len(line)))

(***************************************************************************)
(* _parse_transaction_amounts                                              *)
(***************************************************************************)
IsAmt(a) == a.k = "amt"

\* re.findall(r'([\d.]+,\d{2})', line): the money tokens, left to right.
amounts(line) == SelectSeq(line, IsAmt)

\* line.find(amounts[0]); only used when a money token exists.
first_amount_pos(line) ==
    LET n == CHOOSE n \in 1..Len(line) :
                 IsAmt(line[n]) /\ \A m \in 1..(n - 1) : ~IsAmt(line[m])
    IN Offset(line, n)

ColumnThreshold == 20

\* uscita that is set only when the line has a single money token.
uscita_mut_two(line) ==
    IF Len(amounts(line)) = 1 /\ first_amount_pos(line) <= ColumnThreshold
    THEN parse_amount(Text(amounts(line)[1]))
    ELSE None

\* uscita with the threshold test < in place of <=.
uscita_mut_lt(line) ==
    IF Len(amounts(line)) >= 1 /\ first_amount_pos(line) < ColumnThreshold
    THEN parse_amount(Text(amounts(line)[1]))
    ELSE None

uscita(line) ==
    IF Len(amounts(line)) >= 1 /\ first_amount_pos(line) <= ColumnThreshold
    THEN parse_amount(Text(amounts(line)[1]))
    ELSE None

entrata(line) ==
    IF Len(amounts(line)) >= 1
    THEN IF first_amount_pos(line) > ColumnThreshold
         THEN parse_amount(Text(amounts(line)[1]))
         ELSE IF Len(amounts(line)) >= 2
              THEN parse_amount(Text(amounts(line)[2]))
              ELSE None
    ELSE None

\* Python truth value of an optional float: None and 0.0 are false.
Truthy(x) == x # None /\ x # 0

importo_netto(usc, ent) ==
    IF Truthy(ent) THEN ent
    ELSE IF Truthy(usc) THEN 0 - usc
    ELSE 0

\* description.replace(amount, '', 1) for every token, then strip().
descrizione_riga(line) == Strip(SelectSeq(line, LAMBDA a : ~IsAmt(a)))

parse_transaction_amounts(line) ==
    [uscita |-> uscita(line),
     entrata |-> entrata(line),
     importo_netto |-> importo_netto(uscita(line), entrata(line)),
     descrizione |-> descrizione_riga(line)]

(***************************************************************************)
(* _clean_description and _suggest_category                                *)
(***************************************************************************)
RECURSIVE Collapse(_)
\* re.sub(r'\s+', ' ', description)
Collapse(s) ==
    IF s = <<>> THEN <<>>
    ELSE IF Head(s).k = "sp"
         THEN IF Len(s) >= 2 /\ s[2].k = "sp" THEN Collapse(Tail(s))
              ELSE <<Sp(1)>> \o Collapse(Tail(s))
    ELSE <<Head(s)>> \o Collapse(Tail(s))

\* re.sub(r'-RIF\.\s*\d+/\d+$', '', description)
StripRif(s) ==
    IF s # <<>> /\ s[Len(s)].k = "rif" THEN SubSeq(s, 1, Len(s) - 1) ELSE s

clean_description(description) == Strip(StripRif(Collapse(description)))

UpperCase == <<"A", "B", "C", "D", "E", "F", "G", "H", "I", "J", "K", "L", "M",
               "N", "O", "P", "Q", "R", "S", "T", "U", "V", "W", "X", "Y", "Z">>

LowerCase == <<"a", "b", "c", "d", "e", "f", "g", "h", "i", "j", "k", "l", "m",
               "n", "o", "p", "q", "r", "s", "t", "u", "v", "w", "x", "y", "z">>

LowerChar(c) ==
    IF \E n \in 1..26 : UpperCase[n] = c
    THEN LowerCase[CHOOSE n \in 1..26 : UpperCase[n] = c]
    ELSE c

\* str.lower() of the text of an atom sequence.
Lower(s) == LET t == Flatten(s) IN [n \in 1..Len(t) |-> LowerChar(t[n])]

\* keyword in text
Contains(text, keyword) ==
    \E n \in 1..(Len(text) - Len(keyword) + 1) :
        \A j \in 1..Len(keyword) : text[n + j - 1] = keyword[j]

\* The keyword table of _suggest_category, in its declared order.
categories ==
    << [label |-> "Affitto",
        keywords |->
          << <<"a", "f", "f", "i", "t", "t", "o">>,
             <<"c", "a", "n", "o", "n", "e", " ", "a", "f", "f", "i", "t", "t", "o">>,
             <<"f", "i", "t", "t", "o">> >>],
       [label |-> "Stipendio",
        keywords |->
          << <<"s", "t", "i", "p", "e", "n", "d", "i", "o">>,
             <<"b", "o", "n", "i", "f", "i", "c", "o", " ", "o", "/", "c">>,
             <<"b", "o", "n", "i", "f", "i", "c", "o", " ", "s", "e", "p", "a">> >>],
       [label |-> "Utenze",
        keywords |->
          << <<"i", "t", "a", "l", "i", "a", " ", "p", "o", "w", "e", "r">>,
             <<"g", "a", "s">>,
             <<"l", "u", "c", "e">>,
             <<"e", "n", "e", "r", "g", "i", "a">> >>],
       [label |-> "PayPal",
        keywords |->
          << <<"p", "a", "y", "p", "a", "l">> >>],
       [label |-> "Commissioni",
        keywords |->
          << <<"c", "o", "m", "m", "i", "s", "s", "i", "o", "n", "i">>,
             <<"c", "a", "n", "o", "n", "e", " ", "m", "e", "n", "s", "i", "l", "e">>,
             <<"s", "p", "e", "s", "e", " ", "s", "u", " ", "p", "r", "e", "l", "i", "e", "v", "o">> >>],
       [label |-> "Prelievo",
        keywords |->
          << <<"p", "r", "e", "l", ".", " ", "a", "t", "m">>,
             <<"p", "r", "e", "l", "i", "e", "v", "o", " ", "a", "t", "m">> >>],
       [label |-> "Spesa Alimentari",
        keywords |->
          << <<"s", "u", "p", "e", "r", "m", "e", "r", "c", "a", "t", "o">>,
             <<"c", "o", "n", "a", "d">> >>],
       [label |-> "Trasporti",
        keywords |->
          << <<"a", "t", "a", "c">>,
             <<"t", "r", "e", "n", "i", "t", "a", "l", "i", "a">>,
             <<"u", "n", "i", "c", "o", "c", "a", "m", "p", "a", "n", "i", "a">> >>],
       [label |-> "Ristorazione",
        keywords |->
          << <<"b", "a", "r">>,
             <<"c", "a", "f", "f", "e", "t", "t", "e", "r", "i", "e">>,
             <<"p", "i", "z", "z", "e", "r", "i", "a">>,
             <<"r", "i", "s", "t", "o", "r", "a", "n", "t", "e">> >>],
       [label |-> "Salute",
        keywords |->
          << <<"f", "a", "r", "m", "a", "c", "i", "a">>,
             <<"d", "i", "a", "g", "n", "o", "s", "t", "i", "c", "a">> >>],
       [label |-> "Shopping",
        keywords |->
          << <<"l", "i", "b", "r", "a", "c", "c", "i", "o">>,
             <<"k", "l", "a", "r", "n", "a">> >>],
       [label |-> "Carburante",
        keywords |->
          << <<"s", "t", "a", "z", "i", "o", "n", "e", " ", "e", "n", "e", "r", "g", "a", "s">> >>],
       [label |-> "Servizi",
        keywords |->
          << <<"g", "l", "o", "v", "o">>,
             <<"s", "h", "a", "r", "e", "n", "o", "w">> >>] >>

DefaultCategory == "Altro"

RECURSIVE SuggestFrom_mut(_, _)
\* A loop that lets a later category of the table override an earlier one.
SuggestFrom_mut(description_lower, n) ==
    IF n > Len(categories) THEN DefaultCategory
    ELSE LET later == SuggestFrom_mut(description_lower, n + 1)
         IN IF later # DefaultCategory THEN later
            ELSE IF \E j \in 1..Len(categories[n].keywords) :
                        Contains(description_lower, categories[n].keywords[j])
                 THEN categories[n].label
                 ELSE DefaultCategory

RECURSIVE SuggestFrom(_, _)
\* The loop over categories.items() from category number n on.
SuggestFrom(description_lower, n) ==
    IF n > Len(categories) THEN DefaultCategory
    ELSE IF \E j \in 1..Len(categories[n].keywords) :
                Contains(description_lower, categories[n].keywords[j])
         THEN categories[n].label
         ELSE SuggestFrom(description_lower, n + 1)

suggest_category(description) == SuggestFrom(Lower(description), 1)

(***************************************************************************)
(* The float arithmetic of the statistics and of the summary               *)
(***************************************************************************)
\* A Python float is modelled as [neg, mag]: its magnitude is the natural
\* number with the limbs mag[1] (lowest) to mag[NumLimbs], in base 2^24, in
\* units of 2^-72, so that sums and differences are exact before they are
\* rounded to the MantissaBits significant bits of a double.  The amounts of
\* the records stay in cents: float('12.50') is the double nearest to
\* 1250/100, which Double gives.
LimbBits == 24

Base == 16777216

NumLimbs == 5

FracLimbs == 3

MantissaBits == 53

ZeroMag == [j \in 1..NumLimbs |-> 0]

Zero == [neg |-> FALSE, mag |-> ZeroMag]

Float(neg, x) == [neg |-> neg /\ x # ZeroMag, mag |-> x]

RECURSIVE Carry(_, _, _)
\* The carry into limb j of x + y.
Carry(x, y, j) ==
    IF j = 1 THEN 0
    ELSE (x[j - 1] + y[j - 1] + Carry(x, y, j - 1)) \div Base

AddMag(x, y) ==
    [j \in 1..NumLimbs |-> (x[j] + y[j] + Carry(x, y, j)) % Base]

RECURSIVE Borrow(_, _, _)
\* The borrow from limb j of x - y.
Borrow(x, y, j) ==
    IF j = 1 THEN 0
    ELSE IF x[j - 1] - y[j - 1] - Borrow(x, y, j - 1) < 0 THEN 1 ELSE 0

\* x - y for x >= y.
SubMag(x, y) ==
    [j \in 1..NumLimbs |-> (x[j] - y[j] - Borrow(x, y, j) + Base) % Base]

GreaterMag(x, y) ==
    \E j \in 1..NumLimbs :
        x[j] > y[j] /\ \A k \in (j + 1)..NumLimbs : x[k] = y[k]

\* Bit p of a magnitude, the lowest being bit 0.
Bit(x, p) == (x[(p \div LimbBits) + 1] \div (2 ^ (p % LimbBits))) % 2

\* The number of bits of a magnitude.
BitLength(x) ==
    IF x = ZeroMag THEN 0
    ELSE LET j == CHOOSE k \in 1..NumLimbs :
                      x[k] # 0 /\ \A l \in (k + 1)..NumLimbs : x[l] = 0
             w == CHOOSE k \in 1..LimbBits :
                      2 ^ (k - 1) <= x[j] /\ x[j] < 2 ^ k
         IN LimbBits * (j - 1) + w

\* x modulo 2^p.
LowBits(x, p) ==
    [j \in 1..NumLimbs |->
        IF p >= LimbBits * j THEN x[j]
        ELSE IF p <= LimbBits * (j - 1) THEN 0
        ELSE x[j] % (2 ^ (p - LimbBits * (j - 1)))]

PowerOfTwo(p) ==
    [j \in 1..NumLimbs |->
        IF j = (p \div LimbBits) + 1 THEN 2 ^ (p % LimbBits) ELSE 0]

\* Round to nearest, ties to even, to MantissaBits significant bits; sticky
\* says that the exact value is above x by less than one unit.
RoundMag(x, sticky) ==
    LET cut == BitLength(x) - MantissaBits
    IN IF cut <= 0 THEN x
       ELSE LET kept == SubMag(x, LowBits(x, cut))
                up == /\ Bit(x, cut - 1) = 1
                      /\ \/ Bit(x, cut) = 1
                         \/ sticky
                         \/ LowBits(x, cut - 1) # ZeroMag
            IN IF up THEN AddMag(kept, PowerOfTwo(cut)) ELSE kept

\* a + b of two floats.
fadd(a, b) ==
    IF a.neg = b.neg
    THEN Float(a.neg, RoundMag(AddMag(a.mag, b.mag), FALSE))
    ELSE IF GreaterMag(b.mag, a.mag)
    THEN Float(b.neg, RoundMag(SubMag(b.mag, a.mag), FALSE))
    ELSE Float(a.neg, RoundMag(SubMag(a.mag, b.mag), FALSE))

fneg(a) == Float(~a.neg, a.mag)

fabs(a) == Float(FALSE, a.mag)

\* a - b of two floats.
fsub(a, b) == fadd(a, fneg(b))

RECURSIVE Rem(_, _, _)
\* The remainder of the limbs j and above of x in the division by n.
Rem(x, n, j) ==
    IF j > NumLimbs THEN 0 ELSE (Rem(x, n, j + 1) * Base + x[j]) % n

\* The quotient of x by the natural number n, 0 < n < 128.
Quot(x, n) ==
    [j \in 1..NumLimbs |-> (Rem(x, n, j + 1) * Base + x[j]) \div n]

\* a / n for a float a and a count n > 0.
fdiv(a, n) ==
    Float(a.neg, RoundMag(Quot(a.mag, n), Rem(a.mag, n, 1) # 0))

\* The magnitude of a natural number below Base.
NatMag(c) == [j \in 1..NumLimbs |-> IF j = FracLimbs + 1 THEN c ELSE 0]

\* float() of a decimal with two places, given in cents.
Double(cents) ==
    LET c == NatMag(IF cents < 0 THEN 0 - cents ELSE cents)
    IN Float(cents < 0, RoundMag(Quot(c, 100), Rem(c, 100, 1) # 0))

RECURSIVE MulCarry(_, _, _)
\* The carry into limb j of x * k.
MulCarry(x, k, j) ==
    IF j = 1 THEN 0
    ELSE (x[j - 1] * k + MulCarry(x, k, j - 1)) \div Base

\* x * k for a natural number k < 128.
MulMag(x, k) ==
    [j \in 1..NumLimbs |-> (x[j] * k + MulCarry(x, k, j)) % Base]

\* round(a, 2), in cents: the decimal with two places nearest to the exact
\* value of a, ties to even.
round2(a) ==
    LET h == MulMag(a.mag, 100)
        n == h[FracLimbs + 1] + h[FracLimbs + 2] * Base
        up == /\ h[FracLimbs] >= Base \div 2
              /\ \/ n % 2 = 1
                 \/ h[FracLimbs] > Base \div 2
                 \/ \E j \in 1..(FracLimbs - 1) : h[j] # 0
        r == IF up THEN n + 1 ELSE n
    IN IF a.neg THEN 0 - r ELSE r

(***************************************************************************)
(* Table segmenter and record reconstructor                                *)
(***************************************************************************)
\* start_idx of a loop that takes a page without header line as a segment.
start_idx_mut(lines) ==
    LET hs == {n \in 1..Len(lines) : header_match(lines[n])}
    IN IF hs = {} THEN 1
       ELSE (CHOOSE n \in hs : \A m \in hs : n <= m) + 1

\* Index of the line after the first header line; 0 when no line matches
\* (start_idx = -1 in the code).
start_idx(lines) ==
    LET hs == {n \in 1..Len(lines) : header_match(lines[n])}
    IN IF hs = {} THEN 0
       ELSE (CHOOSE n \in hs : \A m \in hs : n <= m) + 1

\* end_idx of a search for the footer line that starts at the top of the
\* page.
end_idx_mut(lines) ==
    LET fs == {n \in 1..Len(lines) : footer_match(lines[n])}
    IN IF fs = {} THEN Len(lines) + 1
       ELSE CHOOSE n \in fs : \A m \in fs : n <= m

\* Index of the first footer line from start_idx on, else one past the end.
end_idx(lines) ==
    LET fs == {n \in start_idx(lines)..Len(lines) : footer_match(lines[n])}
    IN IF fs = {} THEN Len(lines) + 1
       ELSE CHOOSE n \in fs : \A m \in fs : n <= m

\* The record opened by a transaction-start line.  The field riga is not in
\* the code: it records the index of the start line in the page, so that
\* properties can relate a record to the line it comes from.
new_transaction(line, page, n) ==
    LET trans_data == parse_transaction_amounts(resto_riga(line))
    IN [data_transazione |-> parse_date_short(line[1].v),
        data_valuta |-> parse_date_short(line[3].v),
        importo_uscita |-> trans_data.uscita,
        importo_entrata |-> trans_data.entrata,
        importo |-> trans_data.importo_netto,
        descrizione |-> trans_data.descrizione,
        tipo_movimento |-> IF trans_data.importo_netto > 0 THEN "ENTRATA"
                           ELSE "USCITA",
        pagina |-> page,
        riga |-> n]

\* continue_description without the separating blank.
continue_description_mut(trans, line) ==
    [trans EXCEPT !.descrizione = @ \o line]

\* current_transaction['descrizione'] += ' ' + line
continue_description(trans, line) ==
    [trans EXCEPT !.descrizione = @ \o <<Sp(1)>> \o line]

\* A record that gets its category from the description of its start line
\* alone, as if it were computed when the record is opened (line 202).
finish_transaction_early(trans) ==
    LET d == clean_description(trans.descrizione)
        first == parse_transaction_amounts(
                     resto_riga(Strip(page_texts[trans.pagina][trans.riga])))
    IN [data_transazione |-> trans.data_transazione,
        data_valuta |-> trans.data_valuta,
        importo_uscita |-> trans.importo_uscita,
        importo_entrata |-> trans.importo_entrata,
        importo |-> trans.importo,
        descrizione |-> d,
        tipo_movimento |-> trans.tipo_movimento,
        pagina |-> trans.pagina,
        riga |-> trans.riga,
        categoria_suggerita |->
            suggest_category(clean_description(first.descrizione))]

\* The last loop of _extract_transactions_from_page.
finish_transaction(trans) ==
    LET d == clean_description(trans.descrizione)
    IN [data_transazione |-> trans.data_transazione,
        data_valuta |-> trans.data_valuta,
        importo_uscita |-> trans.importo_uscita,
        importo_entrata |-> trans.importo_entrata,
        importo |-> trans.importo,
        descrizione |-> d,
        tipo_movimento |-> trans.tipo_movimento,
        pagina |-> trans.pagina,
        riga |-> trans.riga,
        categoria_suggerita |-> suggest_category(d)]

(***************************************************************************)
(* Document assembler                                                      *)
(***************************************************************************)
\* list.sort compares every element with another one as soon as the list
\* has two elements, and None < date, date < None and None < None raise
\* TypeError.
sort_raises(s) ==
    Len(s) >= 2 /\ \E n \in 1..Len(s) : s[n].data_transazione = None

RECURSIVE InsertUnstable(_, _)
\* Insert that puts t before the elements of the same key.
InsertUnstable(s, t) ==
    IF s = <<>> THEN <<t>>
    ELSE IF t.data_transazione <= s[Len(s)].data_transazione
         THEN Append(InsertUnstable(SubSeq(s, 1, Len(s) - 1), t), s[Len(s)])
         ELSE Append(s, t)

RECURSIVE Insert(_, _)
\* Insertion of t after every element whose key is not greater.
Insert(s, t) ==
    IF s = <<>> THEN <<t>>
    ELSE IF t.data_transazione < s[Len(s)].data_transazione
         THEN Append(Insert(SubSeq(s, 1, Len(s) - 1), t), s[Len(s)])
         ELSE Append(s, t)

RECURSIVE sort_by_date(_)
\* all_transactions.sort(key=lambda x: x['data_transazione']): a stable
\* sort, computed here by insertion.
sort_by_date(s) ==
    IF s = <<>> THEN <<>>
    ELSE Insert(sort_by_date(SubSeq(s, 1, Len(s) - 1)), s[Len(s)])

\* for i, trans in enumerate(all_transactions, 1)
numbered(s) ==
    [n \in 1..Len(s) |->
        [data_transazione |-> s[n].data_transazione,
         data_valuta |-> s[n].data_valuta,
         importo_uscita |-> s[n].importo_uscita,
         importo_entrata |-> s[n].importo_entrata,
         importo |-> s[n].importo,
         descrizione |-> s[n].descrizione,
         tipo_movimento |-> s[n].tipo_movimento,
         pagina |-> s[n].pagina,
         riga |-> s[n].riga,
         categoria_suggerita |-> s[n].categoria_suggerita,
         numero_progressivo |-> n]]

RECURSIVE InsertByNumber(_, _)
\* Insert for records that already carry their number.
InsertByNumber(s, t) ==
    IF s = <<>> THEN <<t>>
    ELSE IF t.data_transazione < s[Len(s)].data_transazione
         THEN Append(InsertByNumber(SubSeq(s, 1, Len(s) - 1), t), s[Len(s)])
         ELSE Append(s, t)

RECURSIVE numbered_then_sorted(_)
\* The numbering done in input order, before the sort.
numbered_then_sorted(s) ==
    IF s = <<>> THEN <<>>
    ELSE InsertByNumber(numbered_then_sorted(SubSeq(s, 1, Len(s) - 1)),
                        numbered(s)[Len(s)])

\* The sort and the numbering of _extract_all_transactions.
sorted_and_numbered(s) == numbered(sort_by_date(s))

(***************************************************************************)
(* _extract_summary                                                        *)
(***************************************************************************)
\* _parse_date of a DD/MM/YYYY token: the date as YYYYMMDD, or None.
parse_date(tok) ==
    LET dd == tok \div 1000000
        mm == (tok \div 10000) % 100
        yyyy == tok % 10000
    IN IF yyyy >= 1 /\ mm \in 1..12 /\ dd >= 1 /\ dd <= DaysInMonth(mm, yyyy)
       THEN yyyy * 10000 + mm * 100 + dd
       ELSE None

RECURSIVE JoinLines(_)
\* The lines of a page, each followed by a line break.
JoinLines(ls) ==
    IF ls = <<>> THEN <<>> ELSE Head(ls) \o <<Nl>> \o JoinLines(Tail(ls))

RECURSIVE all_text(_)
\* all_text of parse: the texts of the pages, each followed by "\n".
all_text(texts) ==
    IF texts = <<>> THEN <<>>
    ELSE JoinLines(Head(texts)) \o all_text(Tail(texts))

RECURSIVE SkipWs(_, _)
\* \s*: the index of the first atom from n on that is no white space.
SkipWs(text, n) ==
    IF n <= Len(text) /\ text[n].k \in {"sp", "nl"}
    THEN SkipWs(text, n + 1) ELSE n

IsAt(text, n, kind) == n <= Len(text) /\ text[n].k = kind

\* Where the date (0 when the pattern has none), the amount and the euro
\* sign stand when the pattern of the marker matches at atom n.
PatternAt(text, n, marker, dated) ==
    LET d == IF dated THEN SkipWs(text, n + 1) ELSE n
        a == SkipWs(text, d + 1)
        e == SkipWs(text, a + 1)
    IN [ok |-> /\ IsAt(text, n, marker)
               /\ dated => IsAt(text, d, "date4")
               /\ IsAt(text, a, "amt")
               /\ IsAt(text, e, "eur"),
        data |-> IF dated THEN d ELSE 0,
        importo |-> a]

\* re.search of the pattern of the marker: <<>> without match, else the
\* groups of the leftmost match.
search(text, marker, dated) ==
    LET ms == {n \in 1..Len(text) : PatternAt(text, n, marker, dated).ok}
    IN IF ms = {} THEN <<>>
       ELSE <<PatternAt(text, CHOOSE n \in ms : \A k \in ms : n <= k,
                        marker, dated)>>

\* variazione with the balances the wrong way round.
variazione_mut(saldo_iniziale, saldo_finale) ==
    round2(fsub(Double(saldo_iniziale), Double(saldo_finale)))

\* round(saldo_finale - saldo_iniziale, 2), in cents.
variazione(saldo_iniziale, saldo_finale) ==
    round2(fsub(Double(saldo_finale), Double(saldo_iniziale)))

\* A key of the summary dict is <<>> when absent, else <<value>>.
extract_summary(text) ==
    LET saldo_init == search(text, "saldo_iniziale", TRUE)
        saldo_fin == search(text, "saldo_finale", TRUE)
        tot_entrate == search(text, "totale_entrate", FALSE)
        tot_uscite == search(text, "totale_uscite", FALSE)
        balance(g) ==
            IF g = <<>> THEN <<>>
            ELSE <<[data |-> parse_date(text[g[1].data].v),
                    importo |-> parse_amount(Text(text[g[1].importo]))]>>
        total(g) ==
            IF g = <<>> THEN <<>>
            ELSE <<parse_amount(Text(text[g[1].importo]))>>
    IN [saldo_iniziale |-> balance(saldo_init),
        saldo_finale |-> balance(saldo_fin),
        totale_entrate |-> total(tot_entrate),
        totale_uscite |-> total(tot_uscite),
        variazione |->
            IF saldo_init # <<>> /\ saldo_fin # <<>>
            THEN <<variazione(balance(saldo_init)[1].importo,
                              balance(saldo_fin)[1].importo)>>
            ELSE <<>>]

(***************************************************************************)
(* _calculate_statistics                                                   *)
(***************************************************************************)
Front(s) == SubSeq(s, 1, Len(s) - 1)

Last(s) == s[Len(s)]

RECURSIVE NaiveSum(_)
\* The floats of s added from left to right, from 0.
NaiveSum(s) ==
    IF s = <<>> THEN Zero ELSE fadd(NaiveSum(Front(s)), Last(s))

RECURSIVE Neumaier(_)
\* The running sum f and the compensation c of sum() in CPython 3.12.
Neumaier(s) ==
    IF s = <<>> THEN [f |-> Zero, c |-> Zero]
    ELSE LET prev == Neumaier(Front(s))
             x == Last(s)
             t == fadd(prev.f, x)
         IN [f |-> t,
             c |-> fadd(prev.c,
                        IF ~GreaterMag(x.mag, prev.f.mag)
                        THEN fadd(fsub(prev.f, t), x)
                        ELSE fadd(fsub(x, t), prev.f))]

CompensatedSum(s) ==
    LET r == Neumaier(s)
    IN IF r.c # Zero THEN fadd(r.f, r.c) ELSE r.f

\* The built-in sum() of a sequence of floats.
sum(s, compensated) ==
    IF compensated THEN CompensatedSum(s) ELSE NaiveSum(s)

\* The floats of a sequence of amounts in cents.
Floats(s) == [n \in 1..Len(s) |-> Double(s[n])]

MaxOf(s) == CHOOSE x \in {s[n] : n \in 1..Len(s)} :
                \A n \in 1..Len(s) : s[n] <= x

MinOf(s) == CHOOSE x \in {s[n] : n \in 1..Len(s)} :
                \A n \in 1..Len(s) : x <= s[n]

\* The dict of a category: the loop of lines 394-404 over its records.
category_stats(records, cat) ==
    LET of == SelectSeq(records,
                        LAMBDA t : t.categoria_suggerita = cat)
    IN [numero |-> Len(of),
        totale |-> NaiveSum(Floats([n \in 1..Len(of) |-> of[n].importo])),
        transazioni |-> [n \in 1..Len(of) |-> of[n].numero_progressivo]]

\* _calculate_statistics: <<>> is the empty dict returned for no record,
\* <<s>> the dict s.  The totals are floats; the averages and the maxima
\* are decimals with two places and are given in cents.
calculate_statistics(records, compensated) ==
    IF records = <<>> THEN <<>>
    ELSE LET importi == [n \in 1..Len(records) |->
                            records[n].importo]
             entrate == SelectSeq(importi, LAMBDA x : x > 0)
             uscite == SelectSeq(importi, LAMBDA x : x < 0)
             totale_entrate == sum(Floats(entrate), compensated)
             totale_uscite == fabs(sum(Floats(uscite), compensated))
         IN <<[numero_transazioni |-> Len(records),
               numero_entrate |-> Len(entrate),
               numero_uscite |-> Len(uscite),
               totale_entrate |-> totale_entrate,
               totale_uscite |-> totale_uscite,
               saldo_movimento |-> sum(Floats(importi), compensated),
               media_entrate |->
                   IF Len(entrate) > 0
                   THEN round2(fdiv(totale_entrate, Len(entrate))) ELSE 0,
               media_uscite |->
                   IF Len(uscite) > 0
                   THEN round2(fdiv(totale_uscite, Len(uscite))) ELSE 0,
               max_entrata |-> IF Len(entrate) > 0 THEN MaxOf(entrate) ELSE 0,
               max_uscita |->
                   IF Len(uscite) > 0 THEN 0 - MinOf(uscite) ELSE 0,
               categorie |->
                   [cat \in {records[n].categoria_suggerita :
                                n \in 1..Len(records)} |->
                       category_stats(records, cat)]]>>

(***************************************************************************)
(* _extract_interests                                                      *)
(***************************************************************************)
\* 'INTERESSI CREDITORI MATURATI' in page_text, without the test: every
\* page counts as a page of the interest section.
interest_marker_mut(page) == TRUE

\* 'INTERESSI CREDITORI MATURATI' in page_text
interest_marker(page) ==
    \E n \in 1..Len(page) : HasAtom(page[n], "interessi")

\* [\d.,]+ can start at atom n: at a money token, or at the digits a date
\* token starts with.
StartsNumber(text, n) ==
    n <= Len(text) /\ text[n].k \in {"amt", "date", "date4"}

\* What [\d.,]+ matches at atom n: the money token, or the two digits
\* before the first '/' of a date token.
NumberAt(text, n) ==
    IF text[n].k = "amt" THEN Text(text[n]) ELSE SubSeq(Text(text[n]), 1, 2)

\* The pattern (\d{2}/\d{2}/\d{2})\s+([\d.,]+)\s+([\d.,]+)\s+([\d.,]+) at
\* atom n: the places of the three numbers.  The first two numbers are
\* followed by white space, so they are whole money tokens.
CredAt(text, n) ==
    LET a == SkipWs(text, n + 1)
        b == SkipWs(text, a + 1)
        c == SkipWs(text, b + 1)
    IN [ok |-> /\ IsAt(text, n, "date")
               /\ a > n + 1 /\ IsAt(text, a, "amt")
               /\ b > a + 1 /\ IsAt(text, b, "amt")
               /\ c > b + 1 /\ StartsNumber(text, c),
        tasso |-> a, numeri |-> b, interessi |-> c]

\* s.replace(',', '.')
CommaToDot(s) == [n \in 1..Len(s) |-> IF s[n] = "," THEN "." ELSE s[n]]

\* s.replace('.', '')
NoDots(s) == SelectSeq(s, LAMBDA c : c # ".")

\* The entry of lines 347-356 for the match at atom n; a field is None
\* where float() raises ValueError.  The field pagina is not in the code:
\* it records the page the entry comes from.
cred_entry(text, n, page) ==
    LET g == CredAt(text, n)
    IN [data |-> parse_date_short(text[n].v),
        tasso |-> FloatCents(CommaToDot(NumberAt(text, g.tasso))),
        numeri |-> FloatCents(CommaToDot(NoDots(NumberAt(text, g.numeri)))),
        interessi |-> FloatCents(CommaToDot(NumberAt(text, g.interessi))),
        pagina |-> page]

RECURSIVE cred_match(_, _, _)
\* re.findall of the pattern from atom n on: the matches from left to
\* right, none overlapping another.
cred_match(text, n, page) ==
    IF n > Len(text) THEN <<>>
    ELSE IF CredAt(text, n).ok
    THEN <<cred_entry(text, n, page)>>
         \o cred_match(text, CredAt(text, n).interessi + 1, page)
    ELSE cred_match(text, n + 1, page)

\* re.search(r'TOTALE NETTO\s+([\d.,]+)', page_text): the amounts of the
\* matches of the page, by the atom of the marker.
totale_match(text) ==
    {n \in 1..Len(text) :
        /\ IsAt(text, n, "totale_netto")
        /\ SkipWs(text, n + 1) > n + 1
        /\ StartsNumber(text, SkipWs(text, n + 1))}

RECURSIVE creditori(_, _)
\* The entries of the pages p to the last one.
creditori(texts, p) ==
    IF p > Len(texts) THEN <<>>
    ELSE (IF interest_marker(texts[p])
          THEN cred_match(JoinLines(texts[p]), 1, p) ELSE <<>>)
         \o creditori(texts, p + 1)

RECURSIVE totale_creditori(_, _)
\* interests['totale_creditori'] after the pages 1 to p: the total of the
\* last page that has one, 0 when no page has.
totale_creditori(texts, p) ==
    IF p = 0 THEN 0
    ELSE LET text == JoinLines(texts[p])
             ms == totale_match(text)
         IN IF ms = {} THEN totale_creditori(texts, p - 1)
            ELSE LET n == CHOOSE n \in ms : \A k \in ms : n <= k
                 IN parse_amount(NumberAt(text, SkipWs(text, n + 1)))

\* float() raises ValueError in one of the entries.
interests_raise(texts) ==
    \E n \in 1..Len(creditori(texts, 1)) :
        LET e == creditori(texts, 1)[n]
        IN e.tasso = None \/ e.numeri = None \/ e.interessi = None

extract_interests(texts) ==
    [creditori |-> creditori(texts, 1),
     debitori |-> <<>>,
     totale_creditori |-> totale_creditori(texts, Len(texts)),
     totale_debitori |-> 0]

(***************************************************************************)
(* Inputs                                                                  *)
(***************************************************************************)
MaxPages == 2
MaxRecs == 3
MaxLines == 3
MaxAmtLines == 2
MaxSegLines == 5

SeqsUpTo(S, n) == UNION {[1..k -> S] : k \in 0..n}

HeaderLine == <<Hdr>>

start_line(d, g1, g2, rest) == <<D(d), Sp(g1), D(d), Sp(g2)>> \o rest

\* Transaction-start lines that differ in their dates: 01/01/25, 02/01/25,
\* 31/02/25 (no such day) and 01/01/31 (the year 1931).
LinesA ==
    {start_line(d, 1, 1, <<A(1), Sp(1), W(4)>>) :
        d \in {10125, 20125, 310225, 10131}}
    \cup {start_line(10125, 1, 1, <<A(2), Sp(1), W(4)>>)}

\* The ways to cut n lines into k consecutive pages.
Cuts(k, n) ==
    {c \in [1..(k - 1) -> 0..n] : \A j \in 1..(k - 2) : c[j] <= c[j + 1]}

\* The k pages of the lines s cut at c, each under its own header line.
Split(s, k, c) ==
    [p \in 1..k |->
        <<HeaderLine>>
        \o SubSeq(s, (IF p = 1 THEN 0 ELSE c[p - 1]) + 1,
                     IF p = k THEN Len(s) ELSE c[p])]

\* Statements of up to MaxRecs records on up to MaxPages pages.
DocsA ==
    UNION { UNION { {Split(s, k, c) : c \in Cuts(k, Len(s))} :
                    k \in 1..MaxPages } :
            s \in SeqsUpTo(LinesA, MaxRecs) }

\* One page whose segment mixes the kinds of line.
LinesB ==
    { start_line(10125, 1, 1, <<A(1), Sp(1), W(1)>>),
      start_line(20125, 1, 1, <<W(2)>>),
      <<D(10125), Sp(1), D(10125)>>,
      <<Sp(2), W(3), Sp(1)>>,
      <<W(4), Sp(1), Rif>>,
      <<Sp(2)>>,
      <<D(10125), Sp(1), A(4), Sp(1), Saldo, Sp(1), W(4)>>,
      <<Ftr>> }

DocsB == { << <<HeaderLine>> \o s >> : s \in SeqsUpTo(LinesB, MaxLines) }

\* What follows the two dates of a transaction-start line.
Rests ==
    { <<A(1), Sp(1), W(4)>>,
      <<W(4), Sp(19), A(1)>>,
      <<W(4), Sp(20), A(1)>>,
      <<A(1), Sp(1), A(2), Sp(1), W(4)>>,
      <<A(1), Sp(1), A(3), Sp(1), W(4)>>,
      <<W(4), Sp(20), A(1), Sp(1), A(2)>>,
      <<A(3), Sp(1), W(4)>>,
      <<W(4)>>,
      <<A(1), Sp(1), A(2), Sp(1), A(4)>> }

\* Start lines with one blank after the dates, and one with two blanks.
LinesC ==
    {start_line(10125, 1, 1, r) : r \in Rests}
    \cup {start_line(10125, 1, 2, <<W(4), Sp(19), A(1)>>)}

DocsC == { << <<HeaderLine>> \o s >> : s \in SeqsUpTo(LinesC, MaxAmtLines) }

\* Statements with pages that have no text.
DocsD ==
    SeqsUpTo({<<>>, <<HeaderLine, start_line(10125, 1, 1, <<A(1)>>)>>},
             MaxPages)

\* Pages with header and footer lines anywhere, or without them.
LinesE ==
    { <<Hdr>>,
      <<Ftr>>,
      start_line(10125, 1, 1, <<A(1), Sp(1), W(1)>>),
      <<W(3)>> }

DocsE == { <<s>> : s \in SeqsUpTo(LinesE, MaxSegLines) \ {<<>>} }

\* Statements that mix pages with and without a header line.
PagesF ==
    { <<start_line(10125, 1, 1, <<A(1), Sp(1), W(1)>>), <<W(3)>>>>,
      <<<<Ftr>>, start_line(20125, 1, 1, <<A(2), Sp(1), W(4)>>)>>,
      <<<<Hdr>>, start_line(10125, 1, 1, <<A(1), Sp(1), W(1)>>), <<W(3)>>>>,
      <<<<Hdr>>, start_line(20125, 1, 1, <<A(2), Sp(1), W(4)>>)>> }

DocsF == SeqsUpTo(PagesF, MaxPages)

\* Start lines whose descriptions have keywords of no, one or two categories.
RestsG ==
    { <<W(5), Sp(1), W(2), Sp(1), W(3)>>,
      <<W(3), Sp(1), W(2)>>,
      <<W(6), Sp(1), W(7)>>,
      <<A(1), Sp(1), W(1), Sp(1), W(3)>>,
      <<A(1), Sp(1), W(5)>> }

DocsG == { << <<HeaderLine, start_line(10125, 1, 1, r)>> >> : r \in RestsG }

\* Records of one or two categories whose amounts are no binary fractions.
LinesH ==
    { start_line(10125, 1, 1, <<A(5), Sp(1), W(4)>>),
      start_line(10125, 1, 1, <<A(5), Sp(1), W(2)>>),
      start_line(10125, 1, 1, <<A(2), Sp(1), W(4)>>),
      start_line(10125, 1, 1, <<W(4), Sp(20), A(5)>>) }

DocsH == { << <<HeaderLine>> \o s >> : s \in SeqsUpTo(LinesH, MaxRecs) }

\* Lines of the summary, whole, cut in two, and without the euro sign.
LinesS ==
    { <<SIni, Sp(1), D4(1012025), Sp(1), A(5), Sp(1), Eur>>,
      <<SFin, Sp(1), D4(31032025), Sp(1), A(6), Sp(1), Eur>>,
      <<SFin, Sp(1), D4(31022025), Sp(1), A(4), Eur>>,
      <<SIni, D4(1012025)>>,
      <<A(1), Sp(1), Eur>>,
      <<SFin, Sp(1), D4(31032025), Sp(1), A(2)>>,
      <<TEnt, Sp(1), A(1), Sp(1), Eur, Sp(1), TUsc, Sp(1), A(2), Eur>> }

\* One page with lines of the summary above the table of one record.
DocsS ==
    { << s \o <<HeaderLine, start_line(10125, 1, 1, <<A(1), Sp(1), W(4)>>)>> >> :
        s \in SeqsUpTo(LinesS, MaxLines) }

\* A record whose continuation line comes after blank lines and balance
\* rows, followed by a second record.
SkippedLines == { <<Sp(2)>>, <<D(10125), Sp(1), A(4), Sp(1), Saldo>> }

DocsI ==
    { << <<HeaderLine, start_line(10125, 1, 1, <<A(1), Sp(1), W(1)>>), s1, s2,
           <<W(3)>>, start_line(20125, 1, 1, <<A(2), Sp(1), W(4)>>)>> >> :
        <<s1, s2>> \in SkippedLines \X SkippedLines }

\* Pages of the interest section and pages that only look like them: with
\* and without the marker, with lines of a date and three numbers, one of
\* them with a thousands separator in the rate, and with a total.
InterestLine == <<D(310325), Sp(2), A(5), Sp(1), A(4), Sp(1), A(6)>>

PagesJ ==
    { <<<<IntM>>, InterestLine>>,
      <<InterestLine, <<W(4)>>>>,
      <<InterestLine, <<W(4), Sp(1), IntM>>,
        <<D(10125), Sp(1), A(1), Sp(1), A(2)>>, <<Sp(1), D(20125)>>>>,
      <<<<IntM>>, <<D(310325), Sp(1), A(4), Sp(1), A(1), Sp(1), A(2)>>>>,
      <<<<TotN, Sp(1), A(4)>>, InterestLine>>,
      <<<<IntM>>, <<Hdr>>,
        start_line(10125, 1, 1, <<A(1), Sp(1), A(2), Sp(1), A(5)>>),
        <<TotN, Sp(1), A(1), Sp(1), TotN, Sp(1), A(2)>>>> }

DocsJ == SeqsUpTo(PagesJ, MaxPages) \ {<<>>}

\* pdf.ok = FALSE: pdfplumber.open or extract_text raises.
\* A page is the sequence of the lines of its text; <<>> is a page whose
\* extract_text() is empty or None.
Inputs ==
    {[ok |-> FALSE, pages |-> <<>>]}
    \cup {[ok |-> TRUE, pages |-> d] : d \in DocsA \cup DocsB \cup DocsC \cup DocsD
                                              \cup DocsE \cup DocsF \cup DocsG
                                              \cup DocsH \cup DocsS \cup DocsI
                                              \cup DocsJ}

(***************************************************************************)
(* BPERParser.parse as a state machine                                     *)
(***************************************************************************)
Init ==
    /\ \/ compensated_sum = FALSE /\ pdf \in Inputs
       \/ compensated_sum = TRUE
             /\ pdf \in {[ok |-> TRUE, pages |-> d] : d \in DocsH}
    /\ arg = <<>>
    /\ ret = <<>>
    /\ pc = "open"
    /\ page_texts = <<>>
    /\ page_num = 0
    /\ i = 0
    /\ current_transaction = <<>>
    /\ transactions = <<>>
    /\ all_transactions = <<>>
    /\ result = <<>>
    /\ conto_finanziario = <<>>
    /\ transazione = <<>>

\* Open with the list of all records made once for the parser and never
\* emptied, as an attribute set in __init__ would be.
Open_mut ==
    /\ pc = "open"
    /\ IF pdf.ok
       THEN /\ page_texts' = SelectSeq(pdf.pages, LAMBDA t : t # <<>>)
            /\ page_num' = 1
            /\ pc' = "pages"
       ELSE /\ pc' = "raised"
            /\ UNCHANGED <<page_texts, page_num>>
    /\ UNCHANGED <<pdf, i, current_transaction, transactions,
                   all_transactions, result>>
    /\ UNCHANGED <<compensated_sum, arg, ret>>
    /\ UNCHANGED <<conto_finanziario, transazione>>

\* parse, lines 40-48: the texts of the pages that have one; then
\* _extract_all_transactions, line 137: the empty list of all records.
Open ==
    /\ pc = "open"
    /\ IF pdf.ok
       THEN /\ page_texts' = SelectSeq(pdf.pages, LAMBDA t : t # <<>>)
            /\ all_transactions' = <<>>
            /\ page_num' = 1
            /\ pc' = "pages"
       ELSE /\ pc' = "raised"
            /\ UNCHANGED <<page_texts, page_num, all_transactions>>
    /\ UNCHANGED <<pdf, i, current_transaction, transactions, result>>
    /\ UNCHANGED <<compensated_sum, arg, ret>>
    /\ UNCHANGED <<conto_finanziario, transazione>>

lines == page_texts[page_num]

\* _extract_transactions_from_page up to the loop over the segment.
BeginPage ==
    /\ pc = "pages"
    /\ page_num <= Len(page_texts)
    /\ transactions' = <<>>
    /\ current_transaction' = <<>>
    /\ IF start_idx(lines) = 0
       THEN /\ page_num' = page_num + 1
            /\ UNCHANGED <<pc, i>>
       ELSE /\ i' = start_idx(lines)
            /\ pc' = "lines"
            /\ UNCHANGED page_num
    /\ UNCHANGED <<pdf, page_texts, all_transactions, result>>
    /\ UNCHANGED <<compensated_sum, arg, ret>>
    /\ UNCHANGED <<conto_finanziario, transazione>>

\* An iteration in which a blank line and a balance row close the record in
\* progress instead of leaving it open.
ProcessLine_closing ==
    /\ pc = "lines"
    /\ i < end_idx(lines)
    /\ LET line == Strip(lines[i])
       IN IF line = <<>> \/ saldo_match(line)
          THEN /\ transactions' = transactions \o current_transaction
               /\ current_transaction' = <<>>
          ELSE IF date_match(line)
          THEN /\ transactions' = transactions \o current_transaction
               /\ current_transaction' =
                      <<new_transaction(line, page_num, i)>>
          ELSE IF current_transaction # <<>>
          THEN /\ current_transaction' =
                      <<continue_description(current_transaction[1], line)>>
               /\ UNCHANGED transactions
          ELSE UNCHANGED <<current_transaction, transactions>>
    /\ i' = i + 1
    /\ UNCHANGED <<pdf, pc, page_texts, page_num, all_transactions, result>>
    /\ UNCHANGED <<compensated_sum, arg, ret>>
    /\ UNCHANGED <<conto_finanziario, transazione>>

\* One iteration of the loop over range(start_idx, end_idx).
ProcessLine ==
    /\ pc = "lines"
    /\ i < end_idx(lines)
    /\ LET line == Strip(lines[i])
       IN IF line = <<>> \/ saldo_match(line)
          THEN UNCHANGED <<current_transaction, transactions>>
          ELSE IF date_match(line)
          THEN /\ transactions' = transactions \o current_transaction
               /\ current_transaction' =
                      <<new_transaction(line, page_num, i)>>
          ELSE IF current_transaction # <<>>
          THEN /\ current_transaction' =
                      <<continue_description(current_transaction[1], line)>>
               /\ UNCHANGED transactions
          ELSE UNCHANGED <<current_transaction, transactions>>
    /\ i' = i + 1
    /\ UNCHANGED <<pdf, pc, page_texts, page_num, all_transactions, result>>
    /\ UNCHANGED <<compensated_sum, arg, ret>>
    /\ UNCHANGED <<conto_finanziario, transazione>>

\* The end of _extract_transactions_from_page and all_transactions.extend.
EndPage ==
    /\ pc = "lines"
    /\ i >= end_idx(lines)
    /\ LET flushed == transactions \o current_transaction
           returned == [n \in 1..Len(flushed) |->
                           finish_transaction(flushed[n])]
       IN /\ transactions' = returned
          /\ all_transactions' = all_transactions \o returned
    /\ current_transaction' = <<>>
    /\ i' = 0
    /\ page_num' = page_num + 1
    /\ pc' = "pages"
    /\ UNCHANGED <<pdf, page_texts, result>>
    /\ UNCHANGED <<compensated_sum, arg, ret>>
    /\ UNCHANGED <<conto_finanziario, transazione>>

\* The sort and the numbering of _extract_all_transactions, and the return
\* of parse; a TypeError of the sort and a ValueError of _extract_interests
\* leave parse through its except clause.  Of the returned document the
\* fields transazioni, riepilogo, interessi and statistiche are kept.
Assemble ==
    /\ pc = "pages"
    /\ page_num > Len(page_texts)
    /\ IF sort_raises(all_transactions) \/ interests_raise(page_texts)
       THEN /\ pc' = "raised"
            /\ UNCHANGED <<all_transactions, result>>
       ELSE /\ all_transactions' = sorted_and_numbered(all_transactions)
            /\ result' =
                  <<[transazioni |-> all_transactions',
                     riepilogo |-> extract_summary(all_text(page_texts)),
                     interessi |-> extract_interests(page_texts),
                     statistiche |->
                         calculate_statistics(all_transactions',
                                              compensated_sum)]>>
            /\ pc' = "done"
    /\ UNCHANGED <<pdf, page_texts, page_num, i, current_transaction,
                   transactions>>
    /\ UNCHANGED <<compensated_sum, arg, ret>>
    /\ UNCHANGED <<conto_finanziario, transazione>>

Next == Open \/ BeginPage \/ ProcessLine \/ EndPage \/ Assemble

Spec == Init /\ [][Next]_vars

(***************************************************************************)
(* One BPERParser parsing one statement after another                      *)
(***************************************************************************)
MaxCalls == 3

\* The statements of a session: one that cannot be opened, two records out
\* of date order, a record without a date next to a dated one, a summary
\* and interest entries above a record, and a page without text.
SessionInputs ==
    { [ok |-> FALSE, pages |-> <<>>],
      [ok |-> TRUE,
       pages |-> << <<HeaderLine,
                      start_line(20125, 1, 1, <<A(2), Sp(1), W(4)>>),
                      start_line(10125, 1, 1, <<A(1), Sp(1), W(1)>>)>> >>],
      [ok |-> TRUE,
       pages |-> << <<HeaderLine,
                      start_line(10125, 1, 1, <<A(1), Sp(1), W(4)>>),
                      start_line(310225, 1, 1, <<A(1), Sp(1), W(4)>>)>> >>],
      [ok |-> TRUE,
       pages |-> << <<<<SIni, Sp(1), D4(1012025), Sp(1), A(5), Sp(1), Eur>>,
                      <<IntM>>, InterestLine>>,
                    <<HeaderLine,
                      start_line(10125, 1, 1, <<A(5), Sp(1), W(2)>>),
                      <<W(3)>>>> >>],
      [ok |-> TRUE,
       pages |-> << <<>>,
                    <<HeaderLine, start_line(10125, 1, 1, <<A(1)>>)>> >>] }

\* A parser is made and parse is called on arg[1], arg[2], ... in turn; ret
\* collects what each call gave.  The build is the same for the session.
InitSession ==
    /\ compensated_sum \in BOOLEAN
    /\ arg \in UNION {[1..n -> SessionInputs] : n \in 1..MaxCalls}
    /\ ret = <<>>
    /\ pdf = arg[1]
    /\ pc = "open"
    /\ page_texts = <<>>
    /\ page_num = 0
    /\ i = 0
    /\ current_transaction = <<>>
    /\ transactions = <<>>
    /\ all_transactions = <<>>
    /\ result = <<>>
    /\ conto_finanziario = <<>>
    /\ transazione = <<>>

\* parse returns its document (line 66) or raises (line 64); the caller
\* keeps the outcome and calls parse on the next statement.  Nothing of the
\* parser is touched in between: self.patterns is its only attribute.
Return ==
    /\ pc \in {"done", "raised"}
    /\ Len(ret) < Len(arg)
    /\ ret' = Append(ret, IF pc = "done" THEN result ELSE <<>>)
    /\ IF Len(ret) + 1 < Len(arg)
       THEN pdf' = arg[Len(ret) + 2] /\ pc' = "open"
       ELSE pdf' = pdf /\ pc' = "closed"
    /\ UNCHANGED <<page_texts, page_num, i, current_transaction, transactions,
                   all_transactions, result, compensated_sum, arg>>
    /\ UNCHANGED <<conto_finanziario, transazione>>

NextSession == Open \/ BeginPage \/ ProcessLine \/ EndPage \/ Assemble \/ Return

SpecSession == InitSession /\ [][NextSession]_vars

(***************************************************************************)
(* Two calls of parse at the same time                                     *)
(***************************************************************************)
\* The locals of a call of parse that has not started yet.
NewCall(p) ==
    [pdf |-> p, pc |-> "open", page_texts |-> <<>>, page_num |-> 0, i |-> 0,
     current_transaction |-> <<>>, transactions |-> <<>>,
     all_transactions |-> <<>>, result |-> <<>>]

\* The locals of the call that is running.
Running ==
    [pdf |-> pdf, pc |-> pc, page_texts |-> page_texts, page_num |-> page_num,
     i |-> i, current_transaction |-> current_transaction,
     transactions |-> transactions, all_transactions |-> all_transactions,
     result |-> result]

\* The call f takes the processor.
Resume(f) ==
    /\ pdf' = f.pdf
    /\ pc' = f.pc
    /\ page_texts' = f.page_texts
    /\ page_num' = f.page_num
    /\ i' = f.i
    /\ current_transaction' = f.current_transaction
    /\ transactions' = f.transactions
    /\ all_transactions' = f.all_transactions
    /\ result' = f.result

\* What a call that is over gave: its document, or nothing when it raised.
Outcome == IF pc = "done" THEN result ELSE <<>>

\* Two different statements.  Each is parsed alone first (stage 1, then
\* stage 2) and then both are parsed by two threads on one parser (stage
\* 3); arg.run is the thread that is running and arg.other holds the
\* locals of the one that waits.
InitThreads ==
    /\ compensated_sum \in BOOLEAN
    /\ \E a, b \in SessionInputs :
           /\ a # b
           /\ arg = [in |-> <<a, b>>, stage |-> 1, run |-> 1,
                     other |-> NewCall(b)]
           /\ pdf = a
    /\ ret = [alone |-> <<<<>>, <<>>>>, conc |-> <<<<>>, <<>>>>]
    /\ pc = "open"
    /\ page_texts = <<>>
    /\ page_num = 0
    /\ i = 0
    /\ current_transaction = <<>>
    /\ transactions = <<>>
    /\ all_transactions = <<>>
    /\ result = <<>>
    /\ conto_finanziario = <<>>
    /\ transazione = <<>>

\* A call that ran alone is over: the next call starts, or the two threads.
ReturnAlone ==
    /\ arg.stage \in {1, 2}
    /\ pc \in {"done", "raised"}
    /\ ret' = [ret EXCEPT !.alone[arg.stage] = Outcome]
    /\ arg' = [arg EXCEPT !.stage = arg.stage + 1]
    /\ Resume(NewCall(arg.in[IF arg.stage = 1 THEN 2 ELSE 1]))
    /\ UNCHANGED compensated_sum
    /\ UNCHANGED <<conto_finanziario, transazione>>

\* The waiting thread takes over as if the two calls had one list of all
\* records between them.
Switch_shared ==
    /\ arg.stage = 3
    /\ arg.other.pc # "joined"
    /\ arg' = [arg EXCEPT !.run = 3 - arg.run, !.other = Running]
    /\ Resume([arg.other EXCEPT !.all_transactions = all_transactions])
    /\ UNCHANGED <<compensated_sum, ret>>
    /\ UNCHANGED <<conto_finanziario, transazione>>

\* The interpreter gives the processor to the waiting thread between two
\* steps of the running one.  Every name the steps read or write is a local
\* of its call (lines 137-140, 151-152) and goes with the thread.
Switch ==
    /\ arg.stage = 3
    /\ arg.other.pc # "joined"
    /\ arg' = [arg EXCEPT !.run = 3 - arg.run, !.other = Running]
    /\ Resume(arg.other)
    /\ UNCHANGED <<compensated_sum, ret>>
    /\ UNCHANGED <<conto_finanziario, transazione>>

\* A thread's call is over and its caller has the outcome.
Join ==
    /\ arg.stage = 3
    /\ pc \in {"done", "raised"}
    /\ ret' = [ret EXCEPT !.conc[arg.run] = <<Outcome>>]
    /\ pc' = "joined"
    /\ UNCHANGED <<pdf, page_texts, page_num, i, current_transaction,
                   transactions, all_transactions, result, compensated_sum,
                   arg>>
    /\ UNCHANGED <<conto_finanziario, transazione>>

NextThreads ==
    Open \/ BeginPage \/ ProcessLine \/ EndPage \/ Assemble
    \/ ReturnAlone \/ Switch \/ Join

SpecThreads == InitThreads /\ [][NextThreads]_vars

(***************************************************************************)
(* The ledger: accounts, transactions and the balance calculator           *)
(***************************************************************************)
\* conto_finanziario[id_conto] is the row of an account, with its amounts in
\* cents; transazione holds the rows of the transactions in the order of
\* their ids.
MaxTransazioni == 2

Date == {20250101}

Importi == {20, 0 - 1050}

SaldiIniziali == {0, 10}

Operazioni == {"create", "update", "delete", "insert"}

\* ContoFinanziario.__post_init__: an account is made with its balance at
\* the opening balance.
NuovoConto(saldo_iniziale) ==
    [saldo_iniziale |-> saldo_iniziale, saldo_attuale |-> saldo_iniziale]

RECURSIVE OrderByDataDesc(_)
\* ORDER BY data DESC; rows of one date stay in the order of their ids.
OrderByDataDesc(rows) ==
    IF rows = <<>> THEN <<>>
    ELSE LET latest == CHOOSE d \in {rows[k].data : k \in 1..Len(rows)} :
                           \A k \in 1..Len(rows) : rows[k].data <= d
         IN SelectSeq(rows, LAMBDA r : r.data = latest)
            \o OrderByDataDesc(SelectSeq(rows, LAMBDA r : r.data # latest))

\* TransazioneRepository.get_by_conto_id without dates.
get_by_conto_id(rows, id_conto) ==
    OrderByDataDesc(SelectSeq(rows, LAMBDA r : r.id_conto_finanziario = id_conto))

RECURSIVE SommaImporti(_, _)
\* saldo += t.importo for the transactions from the first on, in floats.
SommaImporti(saldo, transazioni) ==
    IF transazioni = <<>> THEN saldo
    ELSE SommaImporti(fadd(saldo, Double(transazioni[1].importo)),
                      Tail(transazioni))

\* The opening balance of the account plus the amounts of its transactions.
saldo_calcolato(conti, rows, id_conto) ==
    SommaImporti(Double(conti[id_conto].saldo_iniziale),
                 get_by_conto_id(rows, id_conto))

\* SaldoCalculator.ricalcola_e_aggiorna_saldo_conto: the accounts after it.
ricalcola_e_aggiorna_saldo_conto(conti, rows, id_conto) ==
    [conti EXCEPT
        ![id_conto].saldo_attuale = round2(saldo_calcolato(conti, rows, id_conto))]

\* An update that recalculates the account of the transaction only.
aggiorna_saldo_mut(conti, rows, t, operazione, precedente) ==
    IF operazione \in {"create", "delete", "update"}
    THEN [raised |-> FALSE,
          conti |-> ricalcola_e_aggiorna_saldo_conto(conti, rows,
                                                     t.id_conto_finanziario)]
    ELSE [raised |-> TRUE, conti |-> conti]

\* SaldoCalculator.aggiorna_saldo_dopo_modifica_transazione: whether it
\* raises, and the accounts after it.  precedente is <<>> for None.
aggiorna_saldo_dopo_modifica_transazione(conti, rows, t, operazione, precedente) ==
    IF operazione \in {"create", "delete"}
    THEN [raised |-> FALSE,
          conti |-> ricalcola_e_aggiorna_saldo_conto(conti, rows,
                                                     t.id_conto_finanziario)]
    ELSE IF operazione = "update"
    THEN IF /\ precedente # <<>>
            /\ precedente[1].id_conto_finanziario # t.id_conto_finanziario
         THEN [raised |-> FALSE,
               conti |-> ricalcola_e_aggiorna_saldo_conto(
                             ricalcola_e_aggiorna_saldo_conto(
                                 conti, rows, precedente[1].id_conto_finanziario),
                             rows, t.id_conto_finanziario)]
         ELSE [raised |-> FALSE,
               conti |-> ricalcola_e_aggiorna_saldo_conto(conti, rows,
                                                          t.id_conto_finanziario)]
    ELSE [raised |-> TRUE, conti |-> conti]

\* SaldoCalculator.verifica_coerenza_saldi_tutti_conti.
verifica_coerenza_saldi_tutti_conti(conti, rows) ==
    [id_conto \in 1..Len(conti) |->
        round2(saldo_calcolato(conti, rows, id_conto))
            = round2(Double(conti[id_conto].saldo_attuale))]

\* The id of the next row: one above the highest id of the table.
NextId(rows) == IF rows = <<>> THEN 1 ELSE rows[Len(rows)].id_transazione + 1

\* The table without its k-th row.
Without(rows, k) == SubSeq(rows, 1, k - 1) \o SubSeq(rows, k + 1, Len(rows))

\* Two accounts made with their opening balances, and no transaction.
InitLedger ==
    /\ conto_finanziario \in
           {<<NuovoConto(a), NuovoConto(b)>> : a, b \in SaldiIniziali}
    /\ transazione = <<>>
    /\ pc = "menu"
    /\ arg = <<>>
    /\ ret = <<>>
    /\ compensated_sum = FALSE
    /\ pdf = [ok |-> FALSE, pages |-> <<>>]
    /\ page_texts = <<>>
    /\ page_num = 0
    /\ i = 0
    /\ current_transaction = <<>>
    /\ transactions = <<>>
    /\ all_transactions = <<>>
    /\ result = <<>>

\* What an operation of the menu does to the two tables: arg keeps the name
\* of the operation, the account of the transaction and the account of
\* the row before the update (None without one), ret what was raised.
Call(rows, t, operazione, precedente) ==
    LET r == aggiorna_saldo_dopo_modifica_transazione(
                 conto_finanziario, rows, t, operazione, precedente)
    IN /\ transazione' = rows
       /\ conto_finanziario' = r.conti
       /\ arg' = [operazione |-> operazione,
                  id_conto_finanziario |-> t.id_conto_finanziario,
                  conto_orig |-> IF precedente = <<>> THEN None
                                 ELSE precedente[1].id_conto_finanziario]
       /\ ret' = IF r.raised THEN <<"ValueError">> ELSE <<>>
       /\ UNCHANGED <<pdf, pc, page_texts, page_num, i, current_transaction,
                      transactions, all_transactions, result, compensated_sum>>

\* gestione_transazioni, choice 2: repo.create and the calculator.
CreaTransazione ==
    /\ pc = "menu"
    /\ NextId(transazione) <= MaxTransazioni
    /\ \E data \in Date, importo \in Importi,
          id_conto \in 1..Len(conto_finanziario) :
           LET t == [id_transazione |-> NextId(transazione), data |-> data,
                     importo |-> importo, descrizione |-> <<W(4)>>,
                     id_conto_finanziario |-> id_conto]
           IN Call(Append(transazione, t), t, "create", <<>>)

\* gestione_transazioni, choice 3: repo.update and the calculator, with the
\* row read before the update.
ModificaTransazione ==
    /\ pc = "menu"
    /\ \E k \in 1..Len(transazione), data \in Date, importo \in Importi,
          id_conto \in 1..Len(conto_finanziario) :
           LET t == [transazione[k] EXCEPT !.data = data, !.importo = importo,
                                           !.id_conto_finanziario = id_conto]
           IN Call([transazione EXCEPT ![k] = t], t, "update",
                   <<transazione[k]>>)

\* gestione_transazioni, choice 4: repo.delete and the calculator.
EliminaTransazione ==
    /\ pc = "menu"
    /\ \E k \in 1..Len(transazione) :
           Call(Without(transazione, k), transazione[k], "delete", <<>>)

\* A caller gives the calculator a stored transaction and any name of
\* operation, without a change of the table before it.
AggiornaSaldo ==
    /\ pc = "menu"
    /\ \E k \in 1..Len(transazione), operazione \in Operazioni :
           Call(transazione, transazione[k], operazione, <<>>)

NextLedger ==
    CreaTransazione \/ ModificaTransazione \/ EliminaTransazione
    \/ AggiornaSaldo

SpecLedger == InitLedger /\ [][NextLedger]_vars

(***************************************************************************)
(* Reconciliation with the closing balance of the statement                *)
(***************************************************************************)
\* The methods of SaldoCalculator.
SaldoCalculatorMethods ==
    { "ricalcola_e_aggiorna_saldo_conto",
      "aggiorna_saldo_dopo_modifica_transazione",
      "verifica_coerenza_saldi_tutti_conti" }

\* The literal 0.01.
Tolerance == Double(1)

\* The running balance of an account: its opening balance plus the signed
\* amounts of its transactions.
calcola_saldo_conto(saldo_iniziale, transazioni) ==
    SommaImporti(Double(saldo_iniziale), transazioni)

\* BPERImporter._update_account_balance, line 282: no warning is printed.
importer_consistent(nuovo_saldo, saldo_estratto) ==
    ~GreaterMag(fabs(fsub(nuovo_saldo, saldo_estratto)).mag, Tolerance.mag)

\* gestione_import_pdf, line 146: the balances are said to coincide.
cli_consistent(saldo_attuale, saldo_finale) ==
    GreaterMag(Tolerance.mag, fabs(fsub(saldo_attuale, saldo_finale)).mag)

\* What _update_account_balance gives for an account and a statement.
update_account_balance(saldo_iniziale, transazioni, saldo_finale) ==
    IF "calcola_saldo_conto" \notin SaldoCalculatorMethods
    THEN "AttributeError"
    ELSE IF importer_consistent(calcola_saldo_conto(saldo_iniziale, transazioni),
                                Double(saldo_finale))
    THEN "consistent"
    ELSE "inconsistent"

\* What gestione_import_pdf says at its end: the stored balance is the one
\* the calculator left after the last transaction saved.
import_pdf_check(saldo_iniziale, transazioni, saldo_finale) ==
    IF cli_consistent(
           Double(round2(SommaImporti(Double(saldo_iniziale), transazioni))),
           Double(saldo_finale))
    THEN "consistent"
    ELSE "inconsistent"

\* Accounts with their transactions and the closing balance of a statement:
\* equal to the cent, and one cent or four cents apart.
Reconciliations ==
    {[saldo_iniziale |-> 100000, transazioni |-> <<[importo |-> 23456]>>,
      saldo_finale |-> c] : c \in {123456, 123457, 123455, 123460}}
    \cup {[saldo_iniziale |-> 0, transazioni |-> <<[importo |-> a]>>,
           saldo_finale |-> c] : a, c \in {1, 2, 3}}
    \cup {[saldo_iniziale |-> 10, transazioni |-> <<[importo |-> 20]>>,
           saldo_finale |-> c] : c \in {29, 30, 31}}

(***************************************************************************)
(* BPERImporter._import_transactions                                        *)
(***************************************************************************)
MaxImports == 2

\* The methods of TransazioneRepository, its own and those of
\* BaseRepository.
TransazioneRepositoryMethods ==
    { "to_entity", "to_dict", "_valida_fk", "create", "update",
      "get_by_periodo", "get_by_conto_id", "get_by_categoria_id",
      "get_by_proprieta_id", "get_by_tipo_flusso",
      "get_fiscalmente_rilevanti", "get_entrate_da_affitto_per_proprieta",
      "get_by_id", "get_all", "delete", "exists", "count" }

\* The names bper_integration.py imports or defines.
ImportedNames ==
    { "sys", "Path", "datetime", "date", "Dict", "List", "Optional",
      "BPERParser", "ContoFinanziario", "TipoConto", "CategoriaTransazione",
      "init_database", "get_db_cursor", "ContoRepository",
      "CategoriaRepository", "TransazioneRepository", "SaldoCalculator",
      "TipoFlusso", "BPERImporter", "interactive_import" }

\* The transactions of an account from one date to another.
get_by_date_range(rows, data_inizio, data_fine, conto_id) ==
    SelectSeq(rows, LAMBDA r : /\ r.id_conto_finanziario = conto_id
                               /\ data_inizio <= r.data
                               /\ r.data <= data_fine)

\* description[:30]
First30(text) == SubSeq(text, 1, IF Len(text) < 30 THEN Len(text) ELSE 30)

\* _transaction_exists, lines 232-238, on the rows the repository gave.
transaction_exists(trans_data, conto_id, rows) ==
    LET transazioni_esistenti ==
            get_by_date_range(rows, trans_data.data_transazione,
                              trans_data.data_transazione, conto_id)
    IN \E k \in 1..Len(transazioni_esistenti) :
           /\ GreaterMag(Tolerance.mag,
                         fabs(fsub(Double(transazioni_esistenti[k].importo),
                                   Double(trans_data.importo))).mag)
           /\ Contains(Flatten(transazioni_esistenti[k].descrizione),
                       First30(Flatten(trans_data.descrizione)))

\* Transazione.__post_init__ raises: on a description without text, on an
\* amount of zero, and on the comparison of no date with today.
transazione_raises(trans_data) ==
    \/ StripChars(Flatten(trans_data.descrizione)) = <<>>
    \/ trans_data.importo = 0
    \/ trans_data.data_transazione = None

\* One turn of the loop of _import_transactions: the counter that goes up
\* and the table after it.
import_transaction(trans_data, conto_id, rows) ==
    IF "get_by_date_range" \notin TransazioneRepositoryMethods
    THEN [counter |-> "errori", rows |-> rows]
    ELSE IF transaction_exists(trans_data, conto_id, rows)
    THEN [counter |-> "duplicate", rows |-> rows]
    ELSE IF \/ "Transazione" \notin ImportedNames
            \/ transazione_raises(trans_data)
    THEN [counter |-> "errori", rows |-> rows]
    ELSE [counter |-> "importate",
          rows |-> Append(rows,
                      [id_transazione |-> NextId(rows),
                       data |-> trans_data.data_transazione,
                       importo |-> trans_data.importo,
                       descrizione |-> trans_data.descrizione,
                       id_conto_finanziario |-> conto_id])]

\* Records of a parsed statement: with and without a date, an inflow and an
\* outflow, a one-word and a two-word description.
ImportRecords ==
    {[data_transazione |-> d, importo |-> a, descrizione |-> s] :
        d \in {20250101, None}, a \in {1250, 0 - 300},
        s \in {<<W(4)>>, <<W(1), Sp(1), W(3)>>}}

\* The records of a parsed statement are imported MaxImports times into an
\* account that has no transaction, or one that another account has too.
InitImport ==
    /\ arg \in {[transazioni |-> s, conto_id |-> c] :
                   s \in SeqsUpTo(ImportRecords, 2) \ {<<>>}, c \in {1, 2}}
    /\ conto_finanziario = <<NuovoConto(0), NuovoConto(0)>>
    /\ transazione \in
           {<<>>,
            <<[id_transazione |-> 1, data |-> 20250101, importo |-> 1250,
               descrizione |-> <<W(4)>>, id_conto_finanziario |-> 2]>>}
    /\ ret = <<>>
    /\ pc = "start"
    /\ result = <<>>
    /\ i = 0
    /\ compensated_sum = FALSE
    /\ pdf = [ok |-> FALSE, pages |-> <<>>]
    /\ page_texts = <<>>
    /\ page_num = 0
    /\ current_transaction = <<>>
    /\ transactions = <<>>
    /\ all_transactions = <<>>

\* _import_transactions, lines 169-174: the counters at zero.
BeginImport ==
    /\ pc = "start"
    /\ result' = <<[importate |-> 0, duplicate |-> 0, errori |-> 0]>>
    /\ i' = 1
    /\ pc' = "import"
    /\ UNCHANGED <<pdf, page_texts, page_num, current_transaction,
                   transactions, all_transactions, compensated_sum, arg, ret,
                   conto_finanziario, transazione>>

\* _import_transactions, lines 176-219: one record.
ImportTransaction ==
    /\ pc = "import"
    /\ i <= Len(arg.transazioni)
    /\ LET r == import_transaction(arg.transazioni[i], arg.conto_id, transazione)
       IN /\ transazione' = r.rows
          /\ result' = <<[result[1] EXCEPT ![r.counter] = @ + 1]>>
    /\ i' = i + 1
    /\ UNCHANGED <<pdf, pc, page_texts, page_num, current_transaction,
                   transactions, all_transactions, compensated_sum, arg, ret,
                   conto_finanziario>>

\* _import_transactions, line 221: the counters are returned; the same
\* records are then imported again.
EndImport ==
    /\ pc = "import"
    /\ i > Len(arg.transazioni)
    /\ ret' = Append(ret, result[1])
    /\ pc' = IF Len(ret) + 1 < MaxImports THEN "start" ELSE "imported"
    /\ UNCHANGED <<pdf, page_texts, page_num, i, current_transaction,
                   transactions, all_transactions, result, compensated_sum,
                   arg, conto_finanziario, transazione>>

NextImport == BeginImport \/ ImportTransaction \/ EndImport

SpecImport == InitImport /\ [][NextImport]_vars

(***************************************************************************)
(* The field extractors called on their own                                *)
(***************************************************************************)
\* date.strftime('%d/%m/%y'), the inverse of the format string of line 419:
\* the token DDMMYY of the date YYYYMMDD.
FormatShort(d) ==
    (d % 100) * 10000 + ((d \div 100) % 100) * 100 + ((d \div 10000) % 100)

\* The days tried in every month: its first day, a day in the middle, and
\* the days on which months end.
Days == {1, 15, 28, 29, 30, 31}

\* The dates whose year the cutoff of line 420 can give back.
Dates ==
    { y * 10000 + mo * 100 + dd :
        <<y, mo, dd>> \in
            { t \in ((FutureCutoff - 99)..FutureCutoff) \X (1..12) \X Days :
                t[3] <= DaysInMonth(t[2], t[1]) } }

\* DD/MM/YY tokens: every two-digit year, the months and days of Dates and
\* the numbers just outside them.
ShortTokens ==
    { dd * 10000 + mo * 100 + yy :
        <<dd, mo, yy>> \in (Days \cup {0, 32}) \X (0..13) \X (0..99) }

AmountDigits == {"0", "7"}

\* The longest integer part of a money token, in digits.
MaxIntDigits == 6

RECURSIVE Grouped(_)
\* A digit sequence with a '.' before every group of three from the right.
Grouped(ds) ==
    IF Len(ds) <= 3 THEN ds
    ELSE Grouped(SubSeq(ds, 1, Len(ds) - 3)) \o <<".">>
             \o SubSeq(ds, Len(ds) - 2, Len(ds))

\* What can follow a money token in the text: the currency symbol and
\* white space.
Trailers == {<<>>, <<" ">>, <<"EUR">>, <<" ", "EUR">>, <<"EUR", " ">>}

\* Money tokens as the statement prints them, bare and with a trailer.
PrintedTokens ==
    { t \o e :
        <<t, e>> \in
            ({ Grouped(ip) \o <<",">> \o fp :
                 <<ip, fp>> \in (SeqsUpTo(AmountDigits, MaxIntDigits) \ {<<>>})
                                    \X [1..2 -> AmountDigits] }
             \cup {<<"1", ".", "2", "3", "4", ",", "5", "6">>})
            \X Trailers }

TokenChars == {"1", ".", ",", " ", "EUR"}

\* The longest token made of arbitrary characters.
MaxTokLen == 4

\* The digits behind the decimal comma of a token, 0 without a comma.
FracDigits(s) ==
    LET commas == {n \in 1..Len(s) : s[n] = ","}
    IN IF commas = {} THEN 0
       ELSE LET p == CHOOSE n \in commas : \A k \in commas : n <= k
            IN Len(SelectSeq(SubSeq(s, p + 1, Len(s)), IsDigit))

\* Any text of the characters of a money token, well formed or not.  Amounts
\* are kept in cents, so tokens are amounts to the cent.
FreeTokens == { s \in SeqsUpTo(TokenChars, MaxTokLen) : FracDigits(s) <= 2 }

MoneyTokens == PrintedTokens \cup FreeTokens

NoDocument == [ok |-> FALSE, pages |-> <<>>]

\* A call of one extractor: of _parse_date_short on a token, or on a date
\* formatted first, or of _parse_amount on a token; or a reconciliation of
\* an account with a statement, by the importer or by the import command.
InitPure ==
    /\ \/ /\ pc = "format"
          /\ arg \in {[fn |-> "_parse_date_short", from |-> <<d>>,
                       str |-> <<>>] : d \in Dates}
       \/ /\ pc = "call"
          /\ arg \in {[fn |-> "_parse_date_short", from |-> <<>>,
                       str |-> <<t>>] : t \in ShortTokens}
       \/ /\ pc = "call"
          /\ arg \in {[fn |-> "_parse_amount", from |-> <<>>,
                       str |-> s] : s \in MoneyTokens}
       \/ /\ pc = "call"
          /\ arg \in {[fn |-> f, conto |-> r] :
                        f \in {"_update_account_balance", "gestione_import_pdf"},
                        r \in Reconciliations}
    /\ ret = <<>>
    /\ compensated_sum = FALSE
    /\ pdf = NoDocument
    /\ page_texts = <<>>
    /\ page_num = 0
    /\ i = 0
    /\ current_transaction = <<>>
    /\ transactions = <<>>
    /\ all_transactions = <<>>
    /\ result = <<>>
    /\ conto_finanziario = <<>>
    /\ transazione = <<>>

\* The date is written as DD/MM/YY.
FormatDate ==
    /\ pc = "format"
    /\ arg' = [arg EXCEPT !.str = <<FormatShort(arg.from[1])>>]
    /\ pc' = "call"
    /\ UNCHANGED <<pdf, page_texts, page_num, i, current_transaction,
                   transactions, all_transactions, result, compensated_sum,
                   ret>>
    /\ UNCHANGED <<conto_finanziario, transazione>>

\* _parse_date_short, lines 415-424.
CallParseDateShort ==
    /\ pc = "call"
    /\ arg.fn = "_parse_date_short"
    /\ ret' = <<parse_date_short(arg.str[1])>>
    /\ pc' = "return"
    /\ UNCHANGED <<pdf, page_texts, page_num, i, current_transaction,
                   transactions, all_transactions, result, compensated_sum,
                   arg>>
    /\ UNCHANGED <<conto_finanziario, transazione>>

\* _parse_amount, lines 426-440.
CallParseAmount ==
    /\ pc = "call"
    /\ arg.fn = "_parse_amount"
    /\ ret' = <<parse_amount(arg.str)>>
    /\ pc' = "return"
    /\ UNCHANGED <<pdf, page_texts, page_num, i, current_transaction,
                   transactions, all_transactions, result, compensated_sum,
                   arg>>
    /\ UNCHANGED <<conto_finanziario, transazione>>

\* BPERImporter._update_account_balance, lines 273-286.
CallUpdateAccountBalance ==
    /\ pc = "call"
    /\ arg.fn = "_update_account_balance"
    /\ ret' = <<update_account_balance(arg.conto.saldo_iniziale,
                                       arg.conto.transazioni,
                                       arg.conto.saldo_finale)>>
    /\ pc' = "return"
    /\ UNCHANGED <<pdf, page_texts, page_num, i, current_transaction,
                   transactions, all_transactions, result, compensated_sum,
                   arg>>
    /\ UNCHANGED <<conto_finanziario, transazione>>

\* gestione_import_pdf, lines 144-149.
CallImportPdfCheck ==
    /\ pc = "call"
    /\ arg.fn = "gestione_import_pdf"
    /\ ret' = <<import_pdf_check(arg.conto.saldo_iniziale,
                                 arg.conto.transazioni,
                                 arg.conto.saldo_finale)>>
    /\ pc' = "return"
    /\ UNCHANGED <<pdf, page_texts, page_num, i, current_transaction,
                   transactions, all_transactions, result, compensated_sum,
                   arg>>
    /\ UNCHANGED <<conto_finanziario, transazione>>

NextPure ==
    FormatDate \/ CallParseDateShort \/ CallParseAmount
    \/ CallUpdateAccountBalance \/ CallImportPdfCheck

SpecPure == InitPure /\ [][NextPure]_vars

(***************************************************************************)
(* Properties                                                              *)
(***************************************************************************)
Terminated == pc \in {"done", "raised"}

\* The transaction-start line of a record and what follows its dates.
SrcLine(r) == Strip(page_texts[r.pagina][r.riga])

SrcResto(r) == resto_riga(SrcLine(r))

\* P holds of every record there is: in progress, of the page, assembled.
EveryRecord(P(_)) ==
    /\ \A n \in 1..Len(current_transaction) : P(current_transaction[n])
    /\ \A n \in 1..Len(transactions) : P(transactions[n])
    /\ \A n \in 1..Len(all_transactions) : P(all_transactions[n])

\* P holds of every record of the returned document.
EveryOutput(P(_)) ==
    pc = "done" => \A n \in 1..Len(result[1].transazioni) :
                       P(result[1].transazioni[n])

SomeOutput(P(_)) ==
    pc = "done" /\ \E n \in 1..Len(result[1].transazioni) :
                       P(result[1].transazioni[n])

\* Record a comes before record b in the input: (page, line) order.
InputBefore(a, b) ==
    a.pagina < b.pagina \/ (a.pagina = b.pagina /\ a.riga < b.riga)

\* C1: whenever some page has text, parse returns a document; a malformed
\* field (such as the date 31/02/25) never makes the whole parse fail.
C1_ParseReturnsDocument ==
    (Terminated /\ pdf.ok /\ \E p \in 1..Len(pdf.pages) : pdf.pages[p] # <<>>)
        => pc = "done"

\* C2: when the extraction fails or gives no page with text, parse fails
\* and returns no document.
C2_NoPagesFails ==
    (Terminated /\ (~pdf.ok \/ \A p \in 1..Len(pdf.pages) : pdf.pages[p] = <<>>))
        => (pc = "raised" /\ result = <<>>)

\* C3: the returned records are in ascending order of transaction date, and
\* records of the same date are in the (page, line) order of the input.
C3_SortedStable ==
    pc = "done" =>
        LET t == result[1].transazioni
        IN \A a, b \in 1..Len(t) :
              a < b =>
                 \/ t[a].data_transazione < t[b].data_transazione
                 \/ /\ t[a].data_transazione = t[b].data_transazione
                    /\ InputBefore(t[a], t[b])

\* A document in which the sort moved a record and kept a tie of two
\* records whose amounts are in descending order.
C3_Witness ==
    /\ pc = "done"
    /\ LET t == result[1].transazioni
       IN /\ \E a, b \in 1..Len(t) : a < b /\ InputBefore(t[b], t[a])
          /\ \E a, b \in 1..Len(t) :
                /\ a < b
                /\ t[a].data_transazione = t[b].data_transazione
                /\ t[a].importo > t[b].importo

\* C4: the sequence numbers of a returned document are 1..N, and the record
\* at position n of the sorted list has sequence number n.
C4_SequenceNumbers ==
    pc = "done" =>
        LET t == result[1].transazioni
        IN /\ \A n \in 1..Len(t) : t[n].numero_progressivo = n
           /\ {t[n].numero_progressivo : n \in 1..Len(t)} = 1..Len(t)

\* A document of three or more records that the sort reordered.
C4_Witness ==
    /\ pc = "done"
    /\ LET t == result[1].transazioni
       IN /\ Len(t) >= 3
          /\ \E a, b \in 1..Len(t) : a < b /\ InputBefore(t[b], t[a])

TwoTokensOutIn(r) ==
    Len(amounts(SrcResto(r))) = 2 =>
        /\ r.importo_uscita = parse_amount(Text(amounts(SrcResto(r))[1]))
        /\ r.importo_entrata = parse_amount(Text(amounts(SrcResto(r))[2]))

\* C5: of two money tokens on a start line the first is the outflow and the
\* second the inflow, wherever they stand.
C5_TwoTokensOutflowInflow == EveryRecord(TwoTokensOutIn)

OneToken(r) == Len(amounts(SrcResto(r))) = 1

TokenValue(r) == parse_amount(Text(amounts(SrcResto(r))[1]))

InflowOnly(r) == r.importo_entrata = TokenValue(r) /\ r.importo_uscita = None

OutflowOnly(r) == r.importo_uscita = TokenValue(r) /\ r.importo_entrata = None

\* Offset of the first money token in the whole start line.
LineOffset(r) ==
    LET l == page_texts[r.pagina][r.riga]
        n == CHOOSE n \in 1..Len(l) :
                 IsAmt(l[n]) /\ \A m \in 1..(n - 1) : ~IsAmt(l[m])
    IN Offset(l, n)

\* C6 as stated: a single money token is an inflow or an outflow according
\* to its offset in the line and one fixed threshold.  Over the records of
\* a page such a threshold exists exactly when each record is one or the
\* other and no inflow token stands at an offset where, or before which,
\* an outflow token stands.
C6_LineOffsetThreshold ==
    /\ EveryRecord(LAMBDA r : OneToken(r) => InflowOnly(r) \/ OutflowOnly(r))
    /\ \A a, b \in 1..Len(all_transactions) :
          LET ra == all_transactions[a]
              rb == all_transactions[b]
          IN (OneToken(ra) /\ OneToken(rb) /\ InflowOnly(ra)
                /\ LineOffset(ra) <= LineOffset(rb)) => InflowOnly(rb)

ClassifiedByRestoOffset(r) ==
    OneToken(r) =>
        IF first_amount_pos(SrcResto(r)) > ColumnThreshold
        THEN InflowOnly(r)
        ELSE OutflowOnly(r)

\* C6 amended: a single money token is classified by its offset in what
\* follows the two dates and the blanks after them: an inflow when the
\* offset is greater than 20, an outflow otherwise.
C6_RestoOffsetThreshold == EveryRecord(ClassifiedByRestoOffset)

\* A returned document with a single token at offset 20 and one at 21.
C6_Witness ==
    /\ SomeOutput(LAMBDA r : OneToken(r) /\ OutflowOnly(r)
                     /\ first_amount_pos(SrcResto(r)) = ColumnThreshold)
    /\ SomeOutput(LAMBDA r : OneToken(r) /\ InflowOnly(r)
                     /\ first_amount_pos(SrcResto(r)) = ColumnThreshold + 1)

NetOfFlows(r) ==
    r.importo = (IF r.importo_entrata # None THEN r.importo_entrata
                 ELSE IF r.importo_uscita # None THEN 0 - r.importo_uscita
                 ELSE 0)

\* C7: the net amount is the inflow when there is one, else minus the
\* outflow when there is one, else 0.
C7_NetAmount == EveryRecord(NetOfFlows)

\* C8 as stated: a returned record has exactly one of inflow, outflow.
C8_ExactlyOneFlow ==
    EveryOutput(LAMBDA r : (r.importo_entrata = None) # (r.importo_uscita = None))

FlowsByTokens(r) ==
    LET k == Len(amounts(SrcResto(r)))
        none == r.importo_entrata = None /\ r.importo_uscita = None
        both == r.importo_entrata # None /\ r.importo_uscita # None
    IN /\ none <=> k = 0
       /\ none => r.importo = 0
       /\ both <=> (k >= 2 /\ first_amount_pos(SrcResto(r)) <= ColumnThreshold)

\* C8 amended: a returned record has neither flow exactly when its start
\* line has no money token (its net amount is then 0), both flows exactly
\* when the line has two or more money tokens the first of which is at an
\* offset of at most 20 after the dates, and exactly one flow otherwise.
C8_FlowsByTokens == EveryOutput(FlowsByTokens)

\* A returned document with a record without flows and one with both.
C8_Witness ==
    /\ SomeOutput(LAMBDA r : r.importo_entrata = None /\ r.importo_uscita = None)
    /\ SomeOutput(LAMBDA r : r.importo_entrata # None /\ r.importo_uscita # None)

\* The lines of the table segment of a page that match the two-date prefix.
DateLines(ls) ==
    IF start_idx(ls) = 0 THEN {}
    ELSE {n \in start_idx(ls)..(end_idx(ls) - 1) :
             data_transazione(Strip(ls[n]))}

\* C9: a page yields one record for each line of its segment that matches
\* the two-date-prefix pattern.
C9_OneRecordPerDateLine ==
    \A p \in 1..Len(page_texts) :
        p < page_num =>
            Cardinality({n \in 1..Len(all_transactions) :
                            all_transactions[n].pagina = p})
                = Cardinality(DateLines(page_texts[p]))

\* A line that goes on with a description: not blank, no balance row, no
\* transaction-start line.
Continuation(line) ==
    line # <<>> /\ ~saldo_match(line) /\ ~date_match(line)

\* The transaction-start lines of the segment before line n.
StartsBefore(ls, n) ==
    {m \in start_idx(ls)..(n - 1) : date_match(Strip(ls[m]))}

ContinuationStep ==
    (pc = "lines" /\ i < end_idx(lines) /\ Continuation(Strip(lines[i])))
        => /\ transactions' = transactions
           /\ all_transactions' = all_transactions
           /\ IF StartsBefore(lines, i) = {}
              THEN current_transaction = <<>> /\ current_transaction' = <<>>
              ELSE /\ Len(current_transaction) = 1
                   /\ \A m \in StartsBefore(lines, i) :
                          m <= current_transaction[1].riga
                   /\ current_transaction' =
                        <<[current_transaction[1] EXCEPT !.descrizione =
                              @ \o <<Sp(1)>> \o Strip(lines[i])]>>

BalanceRow(line) ==
    /\ Len(line) >= 5
    /\ line[1].k = "date" /\ line[3].k = "amt" /\ line[5].k = "saldo"
    /\ line[2].k = "sp" /\ line[4].k = "sp"

\* The loop is at a balance row of the segment.
AtBalanceRow ==
    pc = "lines" /\ i < end_idx(lines) /\ BalanceRow(Strip(lines[i]))

\* No record was started by a balance row.
NoBalanceRecord == EveryRecord(LAMBDA r : ~BalanceRow(SrcLine(r)))

\* The start lines of the segments of all pages, as (page, line).
CountedLines ==
    {pn \in UNION {{p} \X (1..Len(page_texts[p])) :
                      p \in 1..Len(page_texts)} :
        LET ls == page_texts[pn[1]]
        IN /\ start_idx(ls) # 0
           /\ start_idx(ls) <= pn[2] /\ pn[2] < end_idx(ls)
           /\ date_match(Strip(ls[pn[2]]))}

\* The statistics count the start lines, and so no balance row.
BalanceRowsUncounted ==
    (pc = "done" /\ result[1].statistiche # <<>>) =>
        LET s == result[1].statistiche[1]
        IN /\ s.numero_transazioni = Cardinality(CountedLines)
           /\ s.numero_entrate + s.numero_uscite <= Cardinality(CountedLines)

BalanceRowStep ==
    /\ AtBalanceRow =>
          /\ current_transaction' = current_transaction
          /\ transactions' = transactions
          /\ all_transactions' = all_transactions
    /\ NoBalanceRecord'
    /\ BalanceRowsUncounted'

\* C11: a balance row of the segment is discarded: it starts no record, the
\* step over it changes no record, so that its text reaches no description,
\* and the statistics count the start lines only.
C11_BalanceRowDiscarded == [][BalanceRowStep]_vars

\* A record in progress with its description as the start line gave it,
\* just after a balance row that followed the start line.
C11_Witness ==
    /\ pc = "lines"
    /\ i >= start_idx(lines) + 2
    /\ date_match(Strip(lines[i - 2]))
    /\ BalanceRow(Strip(lines[i - 1]))
    /\ Len(current_transaction) = 1
    /\ current_transaction[1].riga = i - 2
    /\ current_transaction[1].descrizione =
           descrizione_riga(resto_riga(Strip(lines[i - 2])))

\* The page has a header line.
HasHeader(ls) == \E n \in 1..Len(ls) : header_match(ls[n])

\* The records of page p there are so far.
RecordsOfPage(p) ==
    {n \in 1..Len(all_transactions) : all_transactions[n].pagina = p}

\* The lines of the segment of a page that start a record.
StartLines(ls) ==
    {n \in start_idx(ls)..(end_idx(ls) - 1) : date_match(Strip(ls[n]))}

\* Every record is of a page with a header line, and a page that is done
\* has given the records of its own start lines, whatever the other pages.
PagesByHeader ==
    /\ EveryRecord(LAMBDA r : HasHeader(page_texts[r.pagina]))
    /\ \A p \in 1..Len(page_texts) :
          p < page_num =>
             Cardinality(RecordsOfPage(p)) =
                 IF HasHeader(page_texts[p])
                 THEN Cardinality(StartLines(page_texts[p]))
                 ELSE 0

HeaderlessStep ==
    /\ (pc = "pages" /\ page_num <= Len(page_texts) /\ ~HasHeader(lines))
          => /\ pc' = "pages"
             /\ page_num' = page_num + 1
             /\ all_transactions' = all_transactions
    /\ PagesByHeader'

\* C12: a page without header line gives no record and no error, whatever
\* its lines look like: the parse goes on to the next page with the records
\* it had, and the other pages give the records of their own start lines.
C12_HeaderlessPageSkipped == [][HeaderlessStep]_vars

\* A returned document of two pages: the first has a start line and no
\* header line, the second has given a record.
C12_Witness ==
    /\ pc = "done"
    /\ Len(page_texts) = 2
    /\ ~HasHeader(page_texts[1])
    /\ \E n \in 1..Len(page_texts[1]) : date_match(Strip(page_texts[1][n]))
    /\ Len(result[1].transazioni) = 1
    /\ result[1].transazioni[1].pagina = 2

\* Line n is in the table segment of the page: it is after the first header
\* line, and no line from the one after that header to line n is a footer.
InSegment(ls, n) ==
    \E h \in 1..(n - 1) :
        /\ header_match(ls[h])
        /\ \A g \in 1..(h - 1) : ~header_match(ls[g])
        /\ \A f \in (h + 1)..n : ~footer_match(ls[f])

RECURSIVE Following(_, _)
\* What the lines from m on add to a description: the continuation lines of
\* the segment up to the next start line.
Following(ls, m) ==
    IF m > Len(ls) \/ ~InSegment(ls, m) \/ date_match(Strip(ls[m]))
    THEN <<>>
    ELSE (IF Continuation(Strip(ls[m]))
          THEN <<Sp(1)>> \o Strip(ls[m]) ELSE <<>>)
         \o Following(ls, m + 1)

\* The description of the record of start line n, from the segment alone.
SegmentDescription(ls, n) ==
    clean_description(descrizione_riga(resto_riga(Strip(ls[n])))
                      \o Following(ls, n + 1))

\* C13: the records of a page are those of the start lines of its segment,
\* the lines after the first header line up to the first footer line after
\* it or the end of the page, and their descriptions are made of lines of
\* that segment only; a footer line before the header does not end it.
C13_OneSegmentPerPage ==
    \A p \in 1..Len(page_texts) :
        p < page_num =>
            LET ls == page_texts[p]
            IN /\ {all_transactions[n].riga : n \in RecordsOfPage(p)} =
                      {n \in 1..Len(ls) :
                          InSegment(ls, n) /\ date_match(Strip(ls[n]))}
               /\ \A n \in RecordsOfPage(p) :
                      all_transactions[n].descrizione =
                          SegmentDescription(ls, all_transactions[n].riga)

\* A returned document of one page with a footer line, the header line, a
\* start line, a footer line and a start line, in this order, and the one
\* record of the first start line.
C13_Witness ==
    /\ pc = "done"
    /\ Len(page_texts) = 1
    /\ LET ls == page_texts[1]
       IN /\ Len(ls) = 5
          /\ footer_match(ls[1]) /\ header_match(ls[2])
          /\ date_match(Strip(ls[3]))
          /\ footer_match(ls[4]) /\ date_match(Strip(ls[5]))
    /\ Len(result[1].transazioni) = 1
    /\ result[1].transazioni[1].riga = 3

\* The categories, by their place in the table, of which a keyword occurs in
\* the lower-cased description.
Hits(description) ==
    {n \in 1..Len(categories) :
        \E j \in 1..Len(categories[n].keywords) :
            Contains(Lower(description), categories[n].keywords[j])}

FirstDeclared(r) ==
    LET hits == Hits(r.descrizione)
    IN /\ r.categoria_suggerita =
              IF hits = {} THEN DefaultCategory
              ELSE categories[CHOOSE n \in hits : \A m \in hits : n <= m].label
       /\ r.categoria_suggerita \in
              {categories[n].label : n \in 1..Len(categories)}
                  \cup {DefaultCategory}

\* C14: the category of a record is the label of the first category, in the
\* order of the table, of which a keyword occurs in the lower-cased cleaned
\* description, and the default label when there is none.
C14_FirstDeclaredCategory ==
    \A n \in 1..Len(all_transactions) : FirstDeclared(all_transactions[n])

\* A returned document with a record whose description has keywords of two
\* categories, the later of which comes first in the description, and a
\* record with the default label.
C14_Witness ==
    /\ SomeOutput(LAMBDA r :
          /\ Cardinality(Hits(r.descrizione)) = 2
          /\ r.descrizione = <<W(2), Sp(1), W(3)>>
          /\ r.categoria_suggerita = "PayPal")
    /\ SomeOutput(LAMBDA r : Hits(r.descrizione) = {}
                                /\ r.categoria_suggerita = DefaultCategory)

PayPalFarmacia == <<W(5), Sp(1), W(2), Sp(1), W(3)>>

\* C15 as stated: a record with the description "Pagamento PayPal farmacia"
\* has the category Salute.
C15_PayPalFarmaciaIsSalute ==
    \A n \in 1..Len(all_transactions) :
        all_transactions[n].descrizione = PayPalFarmacia
            => all_transactions[n].categoria_suggerita = "Salute"

\* The place of a label in the table.
Place(label) == CHOOSE n \in 1..Len(categories) : categories[n].label = label

\* C15 amended: the table declares PayPal before Salute, and a record with
\* the description "Pagamento PayPal farmacia" has the category PayPal.
C15_PayPalFarmaciaIsPayPal ==
    /\ Place("PayPal") < Place("Salute")
    /\ \A n \in 1..Len(all_transactions) :
          all_transactions[n].descrizione = PayPalFarmacia
              => all_transactions[n].categoria_suggerita = "PayPal"

\* A returned record with the description "Pagamento PayPal farmacia".
C15_Witness ==
    SomeOutput(LAMBDA r : /\ r.descrizione = PayPalFarmacia
                          /\ Flatten(r.descrizione) =
                                 Words[5] \o <<" ">> \o Words[2]
                                     \o <<" ">> \o Words[3]
                          /\ Hits(r.descrizione) =
                                 {Place("PayPal"), Place("Salute")})

RECURSIVE FirstSeen(_)
\* The categories of the records in the order of their first record: the
\* order of the dict categorie.
FirstSeen(t) ==
    IF t = <<>> THEN <<>>
    ELSE LET before == FirstSeen(Front(t))
             cat == Last(t).categoria_suggerita
         IN IF \E n \in 1..Len(before) : before[n] = cat
            THEN before ELSE Append(before, cat)

RECURSIVE SeqSum(_)
SeqSum(s) == IF s = <<>> THEN 0 ELSE SeqSum(Front(s)) + Last(s)

\* The counts of the categories add up to the number of records.
CountsClose(t, s) ==
    LET cats == FirstSeen(t)
    IN SeqSum([n \in 1..Len(cats) |-> s.categorie[cats[n]].numero]) = Len(t)

\* Every sequence number is in the list of one category, once.
NumbersPartition(t, s) ==
    \A n \in 1..Len(t) :
        Cardinality({<<cat, k>> \in
                        UNION {{cat} \X DOMAIN s.categorie[cat].transazioni :
                                   cat \in DOMAIN s.categorie} :
                        s.categorie[cat].transazioni[k]
                            = t[n].numero_progressivo}) = 1

\* The totals of the categories add up to the sum of the net amounts, both
\* sums being taken with sum().
TotalsClose(t, s) ==
    LET cats == FirstSeen(t)
    IN sum([n \in 1..Len(cats) |-> s.categorie[cats[n]].totale],
           compensated_sum)
         = sum(Floats([n \in 1..Len(t) |-> t[n].importo]), compensated_sum)

\* P holds of the records and of the statistics of a returned document
\* that has records.
OfStatistics(P(_, _)) ==
    (pc = "done" /\ result[1].statistiche # <<>>)
        => P(result[1].transazioni, result[1].statistiche[1])

C16_CountsClose == OfStatistics(CountsClose)

C16_NumbersPartition == OfStatistics(NumbersPartition)

\* C16: the totals of the categories add up to the sum of the net amounts
\* of all records, their counts add up to the number of records, and their
\* lists of sequence numbers hold every record once.
C16_CategoriesClose ==
    /\ OfStatistics(TotalsClose)
    /\ OfStatistics(CountsClose)
    /\ OfStatistics(NumbersPartition)

\* The statistics s hold the count, the total, the average and the maximum
\* of the inflows and of the outflows of the records t, with 0 as average
\* and maximum of a population without member.
PopulationsOf(t, s) ==
    LET ins == {n \in 1..Len(t) : t[n].importo > 0}
        outs == {n \in 1..Len(t) : t[n].importo < 0}
    IN /\ s.numero_entrate = Cardinality(ins)
       /\ s.numero_uscite = Cardinality(outs)
       /\ ins = {} => (s.totale_entrate = Zero /\ s.media_entrate = 0
                                                /\ s.max_entrata = 0)
       /\ outs = {} => (s.totale_uscite = Zero /\ s.media_uscite = 0
                                                /\ s.max_uscita = 0)
       /\ ins # {} => \E n \in ins : s.max_entrata = t[n].importo
       /\ outs # {} => \E n \in outs : s.max_uscita = 0 - t[n].importo

C17_NonEmptySets == OfStatistics(PopulationsOf)

\* C17: the statistics of every returned document, also of one without
\* records, hold count, total, average and maximum of both populations,
\* with average 0 and maximum 0 for a population without member.
C17_StatisticsOfEverySet ==
    pc = "done" =>
        /\ result[1].statistiche # <<>>
        /\ PopulationsOf(result[1].transazioni, result[1].statistiche[1])

\* The pattern of a balance has a match in the text of the pages.
Found(marker) ==
    \E n \in 1..Len(all_text(page_texts)) :
        PatternAt(all_text(page_texts), n, marker, TRUE).ok

\* C18: the summary has a variation exactly when the opening and the
\* closing balance were both found, it is then the closing balance minus
\* the opening balance, and a balance that is missing makes no parse fail.
C18_VariationOfBalances ==
    /\ pc = "done" =>
          LET r == result[1].riepilogo
          IN /\ r.variazione # <<>>
                   <=> (Found("saldo_iniziale") /\ Found("saldo_finale"))
             /\ r.saldo_iniziale # <<>> <=> Found("saldo_iniziale")
             /\ r.saldo_finale # <<>> <=> Found("saldo_finale")
             /\ r.variazione # <<>> =>
                   r.variazione[1] = r.saldo_finale[1].importo
                                         - r.saldo_iniziale[1].importo
    /\ pc = "raised" => \/ ~pdf.ok
                         \/ sort_raises(all_transactions)
                         \/ interests_raise(page_texts)

\* A returned summary with the balances 0,10 and 0,30, whose difference as
\* floats is not the float of 0,20, and the variation 0,20.
C18_Witness ==
    /\ pc = "done"
    /\ result[1].riepilogo.saldo_iniziale # <<>>
    /\ result[1].riepilogo.saldo_finale # <<>>
    /\ result[1].riepilogo.saldo_iniziale[1].importo = 10
    /\ result[1].riepilogo.saldo_finale[1].importo = 30
    /\ fsub(Double(30), Double(10)) # Double(20)
    /\ result[1].riepilogo.variazione = <<20>>

\* The full year the contract gives to a two-digit year.
YearOf(yy) == IF yy <= 30 THEN 2000 + yy ELSE 1900 + yy

\* A DD/MM/YY token that names a day of the calendar.
ValidShort(tok) ==
    LET dd == tok \div 10000
        mo == (tok \div 100) % 100
    IN mo \in 1..12 /\ dd >= 1 /\ dd <= DaysInMonth(mo, YearOf(tok % 100))

ReturnedFrom(fn) == pc = "return" /\ arg.fn = fn

\* C19: _parse_date_short gives a valid DD/MM/YY token the same day and
\* month and the year 2000-2030 for 00-30, 1931-1999 for 31-99; writing the
\* result back as DD/MM/YY gives the token again, so no two tokens share a
\* date; and a date from 1931-01-01 to 2030-12-31 that is written as
\* DD/MM/YY and resolved comes back unchanged.
C19_TwoDigitYearResolved ==
    ReturnedFrom("_parse_date_short") =>
        LET tok == arg.str[1]
        IN /\ ValidShort(tok) =>
                 /\ ret[1] = YearOf(tok % 100) * 10000
                                 + ((tok \div 100) % 100) * 100
                                 + (tok \div 10000)
                 /\ FormatShort(ret[1]) = tok
           /\ arg.from # <<>> => ret[1] = arg.from[1]

\* The leap day of 1968, which strptime reads as 2068, has come back.
C19_Witness ==
    /\ ReturnedFrom("_parse_date_short")
    /\ arg.from = <<19680229>>
    /\ arg.str = <<290268>>
    /\ ret = <<19680229>>

\* D{1,3}(.DDD)*,DD
IsMoneyForm(s) ==
    /\ Len(s) >= 4
    /\ s[Len(s) - 2] = ","
    /\ IsDigit(s[Len(s) - 1]) /\ IsDigit(s[Len(s)])
    /\ s[1] # "."
    /\ \A n \in 1..(Len(s) - 3) :
          IF (Len(s) - 2 - n) % 4 = 0 THEN s[n] = "." ELSE IsDigit(s[n])

\* The token without what may trail it.
Core(s) == SelectSeq(s, LAMBDA c : c \notin {" ", "EUR"})

\* A money token followed by nothing but currency symbols and white space.
IsPrinted(s) ==
    IsMoneyForm(Core(s)) /\ SubSeq(s, 1, Len(Core(s))) = Core(s)

\* The text is a decimal number once the currency symbols and the '.' are
\* gone and ',' is read as the decimal point: digits, at most one ',',
\* white space only around them.
IsDecimal(s) ==
    LET t == SelectSeq(s, LAMBDA c : c \notin {"EUR", "."})
    IN /\ \E n \in 1..Len(t) : IsDigit(t[n])
       /\ Cardinality({n \in 1..Len(t) : t[n] = ","}) <= 1
       /\ \A n \in 1..Len(t) :
             t[n] = " " => \/ \A k \in 1..n : t[k] = " "
                           \/ \A k \in n..Len(t) : t[k] = " "

\* C20: _parse_amount gives a money token D{1,3}(.DDD)*,DD, with or without
\* a trailing currency symbol and white space, the amount its digits write
\* (in cents: all the digits in a row); an empty token and a token that is
\* not a decimal number give 0.
C20_AmountRead ==
    ReturnedFrom("_parse_amount") =>
        /\ IsPrinted(arg.str) =>
              ret[1] = Num(SelectSeq(arg.str, IsDigit))
        /\ arg.str = <<>> => ret[1] = 0
        /\ ~IsDecimal(arg.str) => ret[1] = 0

\* "1.234,56 EUR" has been read as 1234.56.
C20_Witness ==
    /\ ReturnedFrom("_parse_amount")
    /\ arg.str = <<"1", ".", "2", "3", "4", ",", "5", "6", " ", "EUR">>
    /\ ret = <<123456>>

\* The description of the record r before it is cleaned: that of its start
\* line and the continuation lines of the segment after it.
WholeDescription(r) ==
    descrizione_riga(SrcResto(r)) \o Following(page_texts[r.pagina], r.riga + 1)

\* The label of the first category of the table with a keyword in the text.
LabelOf(description) ==
    LET hits == Hits(description)
    IN IF hits = {} THEN DefaultCategory
       ELSE categories[CHOOSE n \in hits : \A k \in hits : n <= k].label

Unprocessed(r) == "categoria_suggerita" \notin DOMAIN r

PostProcessed(r) ==
    /\ r.descrizione = clean_description(WholeDescription(r))
    /\ r.categoria_suggerita = LabelOf(clean_description(WholeDescription(r)))

\* C26: while the lines of a segment are read no record has a category yet;
\* the records a page hands over have the reference suffix stripped from,
\* and the category computed on, the whole description: that of the start
\* line followed by all its continuation lines.
C26_PostProcessingOnWholeDescription ==
    /\ pc = "lines" =>
          /\ \A n \in 1..Len(transactions) : Unprocessed(transactions[n])
          /\ \A n \in 1..Len(current_transaction) :
                 Unprocessed(current_transaction[n])
    /\ \A n \in 1..Len(all_transactions) : PostProcessed(all_transactions[n])

\* A returned record "Bonifico farmacia" of the category Salute, whose start
\* line "Bonifico" has a keyword of no category and whose continuation line
\* has the keyword.
C26_Witness ==
    SomeOutput(LAMBDA r :
        /\ Hits(descrizione_riga(SrcResto(r))) = {}
        /\ Following(page_texts[r.pagina], r.riga + 1) = <<Sp(1), W(3)>>
        /\ r.descrizione = <<W(1), Sp(1), W(3)>>
        /\ r.categoria_suggerita = "Salute")

\* The keywords of the category with the label.
KeywordsOf(label) == categories[Place(label)].keywords

\* A keyword of the category occurs in the description of the record.
Mentions(r, label) ==
    \E j \in 1..Len(KeywordsOf(label)) :
        Contains(Lower(r.descrizione), KeywordsOf(label)[j])

\* C27 as stated: no category of the table is shadowed by the categories
\* declared before it, so a returned record whose description contains
\* 'stazione energas', the one keyword of Carburante, has the category
\* Carburante.
C27_CarburanteReturned ==
    EveryOutput(LAMBDA r :
        Mentions(r, "Carburante") => r.categoria_suggerita = "Carburante")

\* The place in the statement of its p-th page with text.
PositionOf(p) ==
    CHOOSE n \in 1..Len(pdf.pages) :
        /\ pdf.pages[n] # <<>>
        /\ Cardinality({k \in 1..n : pdf.pages[k] # <<>>}) = p

\* C28 as stated: the page number of a returned record is the place of its
\* page among the pages of the statement, also after pages without text.
C28_PageNumberIsPosition ==
    EveryOutput(LAMBDA r : r.pagina = PositionOf(r.pagina))

Skipped(line) == line = <<>> \/ BalanceRow(line)

RECURSIVE Appended(_, _, _)
\* What the lines a to b - 1 add to the description of the record in
\* progress: skipped lines nothing, any other line a blank and its text.
Appended(ls, a, b) ==
    IF a >= b THEN <<>>
    ELSE (IF Skipped(Strip(ls[a])) THEN <<>> ELSE <<Sp(1)>> \o Strip(ls[a]))
         \o Appended(ls, a + 1, b)

\* The records of the page read so far, closed and in progress.
PageRecords == transactions \o current_transaction

\* C29: blank lines and balance rows leave the record in progress open.
\* While a segment is read, the record in progress is that of the last
\* start line read, whatever lines were skipped since, its description is
\* that of the start line with every line that is not skipped appended, and
\* every start line read has exactly one record.
C29_SkippedLinesKeepRecordOpen ==
    pc = "lines" =>
        /\ IF StartsBefore(lines, i) = {}
           THEN current_transaction = <<>>
           ELSE /\ Len(current_transaction) = 1
                /\ \A k \in StartsBefore(lines, i) :
                       k <= current_transaction[1].riga
                /\ current_transaction[1].descrizione =
                       descrizione_riga(SrcResto(current_transaction[1]))
                           \o Appended(lines, current_transaction[1].riga + 1, i)
        /\ \A k \in StartsBefore(lines, i) :
               Cardinality({n \in 1..Len(PageRecords) :
                               PageRecords[n].riga = k}) = 1
        /\ Len(PageRecords) = Cardinality(StartsBefore(lines, i))

\* A record in progress that has taken a continuation line after a blank
\* line and a balance row.
C29_Witness ==
    /\ pc = "lines"
    /\ i >= start_idx(lines) + 4
    /\ date_match(Strip(lines[i - 4]))
    /\ Strip(lines[i - 3]) = <<>>
    /\ BalanceRow(Strip(lines[i - 2]))
    /\ Continuation(Strip(lines[i - 1]))
    /\ transactions = <<>>
    /\ Len(current_transaction) = 1
    /\ current_transaction[1].riga = i - 4
    /\ current_transaction[1].descrizione = <<W(1), Sp(1), W(3)>>

\* The text of the page contains the marker of the interest section.
HasInterestMarker(page) == Contains(Flatten(JoinLines(page)), InteressiText)

\* The page has a line of a date and three numbers.
HasInterestLine(page) ==
    \E n \in 1..Len(page) :
        /\ Len(page[n]) = 7
        /\ page[n][1].k = "date" /\ page[n][3].k = "amt"
        /\ page[n][5].k = "amt" /\ page[n][7].k = "amt"

\* C24: every interest entry of the returned document comes from a page
\* whose text contains the marker of the interest section; a page without
\* the marker adds no entry, whatever lines it has.
C24_InterestEntriesFromMarkedPages ==
    pc = "done" =>
        LET entries == result[1].interessi.creditori
        IN /\ \A n \in 1..Len(entries) :
                  /\ entries[n].pagina \in 1..Len(page_texts)
                  /\ HasInterestMarker(page_texts[entries[n].pagina])
           /\ result[1].interessi.debitori = <<>>

\* A returned document of two pages that both have a line of a date and
\* three numbers, the second page alone with the marker, and the one entry
\* of the second page.
C24_Witness ==
    /\ pc = "done"
    /\ Len(page_texts) = 2
    /\ HasInterestLine(page_texts[1]) /\ ~HasInterestMarker(page_texts[1])
    /\ HasInterestLine(page_texts[2]) /\ HasInterestMarker(page_texts[2])
    /\ Len(result[1].interessi.creditori) = 1
    /\ result[1].interessi.creditori[1].pagina = 2


(***************************************************************************)
(* Calls on one parser                                                     *)
(***************************************************************************)
\* C21: two calls of parse on the same statement give the same document
\* (or both raise), on one parser and whatever it parsed in between.
C21_SameInputSameDocument ==
    \A j, k \in 1..Len(ret) : arg[j] = arg[k] => ret[j] = ret[k]

\* A statement of two records parsed, another statement parsed, and the
\* first one parsed again.
C21_Witness ==
    /\ Len(ret) = 3
    /\ arg[1] = arg[3]
    /\ arg[2] # arg[1]
    /\ ret[1] # <<>>
    /\ Len(ret[1][1].transazioni) = 2
    /\ ret[2] # <<>>
    /\ ret[2][1].transazioni # <<>>


(***************************************************************************)
(* Calls on two threads                                                    *)
(***************************************************************************)
\* The page texts a call was given, as its caller holds them.
GivenPages(f, t) ==
    /\ f.pdf = arg.in[t]
    /\ f.pc \notin {"open", "raised"} =>
           f.page_texts = SelectSeq(arg.in[t].pages, LAMBDA x : x # <<>>)

\* C22: of two calls of parse that run at the same time on different
\* statements, under every interleaving of their steps, each gives what it
\* gives when it runs alone, and the page texts of neither are changed.
C22_ConcurrentAsAlone ==
    arg.stage = 3 =>
        /\ \A t \in 1..2 : ret.conc[t] # <<>> => ret.conc[t][1] = ret.alone[t]
        /\ GivenPages(Running, arg.run)
        /\ GivenPages(arg.other, 3 - arg.run)

\* Both threads are over, both gave a document with records, and the one
\* that started first ended last.
C22_Witness ==
    /\ arg.stage = 3
    /\ ret.conc[1] # <<>> /\ ret.conc[2] # <<>>
    /\ ret.conc[1][1] # <<>> /\ ret.conc[2][1] # <<>>
    /\ Len(ret.conc[1][1][1].transazioni) = 2
    /\ ret.conc[2][1][1].transazioni # <<>>
    /\ arg.run = 1
    /\ pc = "joined"


(***************************************************************************)
(* Balances of the accounts                                                *)
(***************************************************************************)
RECURSIVE SumCents(_)
\* The sum of the amounts of rows, in cents.
SumCents(rows) ==
    IF rows = <<>> THEN 0 ELSE rows[1].importo + SumCents(Tail(rows))

Coherent(id_conto) ==
    /\ conto_finanziario[id_conto].saldo_attuale =
           conto_finanziario[id_conto].saldo_iniziale
               + SumCents(SelectSeq(transazione,
                     LAMBDA r : r.id_conto_finanziario = id_conto))
    /\ verifica_coerenza_saldi_tutti_conti(conto_finanziario, transazione)[id_conto]

\* The operations of the menu: the calculator gets their own name.
Matching ==
    arg = <<>> \/ (arg.operazione \in {"create", "update", "delete"})

\* C30: after any sequence of create, update and delete, each followed by
\* the calculator with its name (and the row before an update), the stored
\* balance of every account is its opening balance plus the amounts of its
\* transactions, rounded to cents, and the coherence check says True for
\* it; a name other than create, update and delete raises and changes no
\* balance.
C30_BalancesFollowTransactions ==
    /\ [](\A id_conto \in 1..Len(conto_finanziario) : Coherent(id_conto))
    /\ [][/\ arg'.operazione \notin {"create", "update", "delete"}
             => ret' = <<"ValueError">> /\ conto_finanziario' = conto_finanziario
          /\ arg'.operazione \in {"create", "update", "delete"} => ret' = <<>>]_vars

\* A transaction has just been moved to the other account, whose balance
\* is then no binary fraction away from its opening balance.
C30_Witness ==
    /\ arg # <<>>
    /\ arg.operazione = "update"
    /\ arg.conto_orig \notin {None, arg.id_conto_finanziario}
    /\ Len(transazione) = 2
    /\ \A k \in 1..2 : transazione[k].id_conto_finanziario
                           = arg.id_conto_finanziario
    /\ conto_finanziario[arg.id_conto_finanziario].saldo_iniziale = 10
    /\ conto_finanziario[arg.id_conto_finanziario].saldo_attuale = 50

(***************************************************************************)
(* Reconciliation                                                          *)
(***************************************************************************)
\* The distance in cents between the balance of the account and the
\* closing balance of the statement.
CentsApart(r) ==
    LET x == r.saldo_iniziale + SumCents(r.transazioni) - r.saldo_finale
    IN IF x < 0 THEN 0 - x ELSE x

\* C23: the reconciliation says consistent exactly when the balance of the
\* account and the closing balance are less than 0.01 apart, and
\* inconsistent otherwise, in the importer and in the import command alike.
C23_ToleranceRule ==
    (pc = "return" /\ arg.fn \in {"_update_account_balance", "gestione_import_pdf"})
        => /\ ret[1] = IF CentsApart(arg.conto) < 1 THEN "consistent"
                       ELSE "inconsistent"
           /\ update_account_balance(arg.conto.saldo_iniziale,
                                     arg.conto.transazioni,
                                     arg.conto.saldo_finale)
                  = import_pdf_check(arg.conto.saldo_iniziale,
                                     arg.conto.transazioni,
                                     arg.conto.saldo_finale)


(***************************************************************************)
(* Importing the same statement twice                                      *)
(***************************************************************************)
\* C25: when the records of a parsed statement are imported a second time
\* into the same account, none of them is persisted again: every one is
\* counted as a duplicate of a transaction persisted by the first import.
C25_SecondImportAllDuplicates ==
    Len(ret) >= 2 =>
        /\ ret[2].importate = 0
        /\ ret[2].duplicate = Len(arg.transazioni)

=============================================================================
